---- MODULE Spec2Model ----
(***************************************************************************)
(* Acquisition-and-processing chain of the OTB Python application:         *)
(* DataReceiverThread (app/data/data_receiver.py), the named pipelines     *)
(* (app/processing/pipeline.py), Track (app/core/track.py), TrackManager   *)
(* and StreamingController (app/managers), CalibrationDialog               *)
(* (app/ui/dialogs/dialogs.py) and the handlers of SoundtrackWindow        *)
(* (app/ui/windows/main_window.py).                                        *)
(*                                                                         *)
(* Bytes of the TCP stream are identified by their position in the stream: *)
(* a chunk of bytes is the pair (start, len).  A sample matrix is the byte *)
(* range it was decoded from plus the list of stages applied to it.        *)
(***************************************************************************)
EXTENDS Integers, Sequences, FiniteSets, TLC

\* ------------------------------------------------------------------ bounds
\* The device sends at most MaxStreamSamples samples per channel
\* (MaxStreamSamples * 2 * nchannels bytes).
MaxStreamSamples == 4

\* A calibration dialog collects at most MaxCalVectors RMS vectors between two
\* presses of Start (rest and contraction lists together).
MaxCalVectors == 2

\* The track on its own is fed at most MaxFedSamples samples and resized at
\* most MaxResizes times.
MaxFedSamples == 12
MaxResizes == 1

\* Packets fed while a resize can interleave hold at most MaxPacket samples.
MaxPacket == 3

\* ------------------------------------------------------- program constants
RecvBufFirst == 65536
FpsInterval == 100
DEFAULT_PLOT_TIME == 1

\* open_calibration_dialog: CalibrationDialog(..., rest_duration=3, contraction_duration=3)
REST_DURATION == 3
CONTRACTION_DURATION == 3
\* compute_threshold_and_close: min_samples_required
MinSamplesRequired == 1
\* saturation_threshold_high; saturation_threshold_low is its negation
SaturationThreshold == 32760
\* threshold = baseline_rms + 3.0 * baseline_std
ThresholdK == 3
\* np.percentile(non_saturated, 99)
MvcPercentile == 99

\* Channel counts of the device lookup table (CHANNEL_MAPPING).
ChannelCounts == {12, 16, 24, 40, 72}

\* Sampling frequency of the modelled device: 2 samples per packet, so that
\* 72 channels give expected_bytes = 288.
Frequencies == {32}

None == "None"
\* None in place of an array
NoArray == <<>>

Max(a, b) == IF a >= b THEN a ELSE b
Min(a, b) == IF a <= b THEN a ELSE b
Abs(a) == IF a < 0 THEN -a ELSE a

RECURSIVE GCD(_, _)
GCD(a, b) == IF b = 0 THEN a ELSE GCD(b, a % b)

\* Exact fractions <<numerator, denominator>>, denominator > 0, in lowest terms.
Rat(n, d) == LET g == GCD(Abs(n), d) IN <<n \div g, d \div g>>
RInt(n) == <<n, 1>>
RAdd(a, b) == Rat(a[1] * b[2] + b[1] * a[2], a[2] * b[2])
RDivInt(a, k) == Rat(a[1], a[2] * k)
RLess(a, b) == a[1] * b[2] < b[1] * a[2]

RECURSIVE SeqSum(_)
SeqSum(xs) == IF xs = <<>> THEN 0 ELSE Head(xs) + SeqSum(Tail(xs))

RECURSIVE RSum(_)
RSum(xs) == IF xs = <<>> THEN RInt(0) ELSE RAdd(Head(xs), RSum(Tail(xs)))

\* ----------------------------------------------------------------- state
VARIABLES
    device,          \* [nchannels, frequency]
    PIPELINES,       \* registry: name -> sequence of stage names
    tracks,          \* sequence of [title, num_channels, idx, buffer, buffer_index]
    sock,            \* "open" | "eof" (peer closed) | "reset" (connection error)
    pos,             \* number of stream bytes the socket has handed out
    pc,              \* worker position: "unstarted" | "recv" | "retry" | "process" | "exited"
    running,         \* DataReceiverThread.running
    first_packet,    \* local of run()
    packet_bytes,    \* local of run(); 0 stands for None
    data,            \* local of run(): the bytes read for the current packet
    packet_count,    \* DataReceiverThread.packet_count
    frames,          \* per decoded frame: the locals raw, filtered, rectified, processed
                     \* and the set of branches whose pipeline raised
    events,          \* stage_output emissions, in emission order
    data_received,   \* data_received emissions, in emission order
    status_updates,  \* status_update emissions of the receiver, in order
    io,              \* outcome of the last recv call of the worker: "none" | "data" |
                     \* "timeout" | "timeout_again" | "eof" | "reset"
    is_streaming,    \* StreamingController.is_streaming
    is_paused,       \* StreamingController.is_paused
    timer_active,    \* the plot timer of the window
    stop_requested,  \* DataReceiverThread.stop() has been called
    window_closed,   \* closeEvent has run
    dialog,          \* the CalibrationDialog of the window (see NoDialog)
    is_calibrated,   \* SoundtrackWindow.is_calibrated
    baseline_rms,    \* SoundtrackWindow.baseline_rms
    threshold,       \* SoundtrackWindow.threshold
    mvc_rms,         \* SoundtrackWindow.mvc_rms
    track,           \* one Track on its own: [buffer, buffer_index], one row
    samples_fed,     \* every sample fed to track, oldest first
    joined,          \* what one feed of the concatenated packets gives (see TrackFeedTwice)
    resizes,         \* number of change_plot_time calls on track
    feeding,         \* the Track.feed call in progress on the worker thread:
                     \* [pc, packet, end_space]
    resizing,        \* the change_plot_time call in progress on the UI thread:
                     \* [pc, new_buf]
    computation,     \* compute_threshold_and_close on given lists:
                     \* [rest_rms_values, contraction_rms_values, done,
                     \*  mvc_before_repair, result]
    detection,       \* detect_contractions_rms_rate on given arguments (see NoDetection)
    registry,        \* the module-level _PIPELINES of pipeline.py with the identity
                     \* of its instances (see NoRegistry)
    command,         \* SessantaquattroPlus.create_command on given arguments
                     \* (see NoCommand)
    window,          \* the receiver and controller of the SoundtrackWindow as the
                     \* stream button handler sees them (see NoWindow)
    controller       \* one StreamingController on its own (see NoController)

recvVars == <<sock, pos, pc, running, first_packet, packet_bytes, data,
              packet_count, frames, events, data_received, status_updates, io>>
ctlVars == <<is_streaming, is_paused, timer_active, stop_requested, window_closed>>
cfgVars == <<device, PIPELINES>>
calVars == <<dialog, is_calibrated, baseline_rms, threshold, mvc_rms>>
trkVars == <<track, samples_fed, joined, resizes>>
raceVars == <<feeding, resizing>>
unitVars == <<registry, command, window, controller>>
restVars == <<recvVars, ctlVars, cfgVars, calVars, tracks, computation, detection, unitVars>>

\* --------------------------------------------------------------- pipelines
NoStages == <<>>

\* One sample matrix: decoded from stream bytes [src, src+len), with the
\* stages in ops applied in that order; shape (nchannels, len / (2*nchannels)).
Matrix(src, len) == [src |-> src, len |-> len, ops |-> <<>>]

ApplyStage(stage, x) == [x EXCEPT !.ops = Append(@, stage)]

\* Variant of RunStages that applies the last stage first.
RECURSIVE RunStagesLastFirst(_, _)
RunStagesLastFirst(stages, x) ==
    IF stages = <<>> THEN x
    ELSE ApplyStage(Head(stages), RunStagesLastFirst(Tail(stages), x))

\* ProcessingPipeline.run on the list of stages.
RECURSIVE RunStages(_, _)
RunStages(stages, x) ==
    IF stages = <<>> THEN x
    ELSE RunStages(Tail(stages), ApplyStage(Head(stages), x))

\* ProcessingPipeline.run of the pipeline registered under name.
PipelineRun(name, x) == RunStages(PIPELINES[name], x)

\* Pipelines as SoundtrackWindow._configure_pipelines leaves them.
AppPipelines ==
    [name \in {"raw", "filtered", "rectified", "final", "fft"} |->
        CASE name = "filtered"  -> <<"butter_bandpass", "notch">>
          [] name = "rectified" -> <<"rectify">>
          [] name = "fft"       -> <<"fft_transform">>
          [] OTHER              -> NoStages]

\* The same with the 'final' pipeline pre-configured by the caller.
PipelineConfigs ==
    {AppPipelines, [AppPipelines EXCEPT !["final"] = <<"envelope">>]}

\* Branches whose pipeline has a stage that can raise on a frame.
CanRaise == {n \in {"filtered", "rectified", "final"} : PIPELINES[n] # NoStages}

\* ------------------------------------------------------------------ tracks
ZeroCol == [m |-> Matrix(0, 0), lo |-> 0, hi |-> 0, col |-> 0]

PlotCapacity(plot_time_ms, frequency) == (plot_time_ms * frequency) \div 1000

TrackInfo(nchannels) ==
    IF nchannels = 72 THEN
        << <<"HDsEMG 64 channels", 64, 0>>, <<"AUX 1", 1, 64>>, <<"AUX 2", 1, 65>>,
           <<"Quaternions", 4, 66>>, <<"Buffer", 1, 70>>, <<"Ramp", 1, 71>> >>
    ELSE IF nchannels = 40 THEN
        << <<"HDsEMG 32 channels", 32, 0>>, <<"AUX 1", 1, 32>>, <<"AUX 2", 1, 33>>,
           <<"Quaternions", 4, 34>>, <<"Buffer", 1, 38>>, <<"Ramp", 1, 39>> >>
    ELSE
        LET main == Max(4, nchannels - 8)
            base == << <<"HDsEMG", main, 0>>, <<"AUX 1", 1, main>>,
                       <<"AUX 2", 1, main + 1>> >>
        IN  IF nchannels >= main + 8
            THEN base \o << <<"Quaternions", 4, main + 2>>, <<"Buffer", 1, main + 6>>,
                            <<"Ramp", 1, main + 7>> >>
            ELSE base

NewTrack(info, frequency, plot_time_ms) ==
    [title |-> info[1], num_channels |-> info[2], idx |-> info[3],
     buffer |-> [c \in 1..PlotCapacity(plot_time_ms, frequency) |-> ZeroCol],
     buffer_index |-> 0]

InitTracks(dev) ==
    LET info == TrackInfo(dev.nchannels)
    IN  [t \in 1..Len(info) |-> NewTrack(info[t], dev.frequency, DEFAULT_PLOT_TIME * 1000)]

\* Variant of RowSlice that slices every track from row 0.
RowSliceFromZero(m, idx, n, nchannels) ==
    [j \in 1..(m.len \div (2 * nchannels)) |-> [m |-> m, lo |-> 0, hi |-> n, col |-> j]]

\* processed[idx:idx + n]: rows idx .. idx+n-1 of matrix m, all its columns.
RowSlice(m, idx, n, nchannels) ==
    [j \in 1..(m.len \div (2 * nchannels)) |-> [m |-> m, lo |-> idx, hi |-> idx + n, col |-> j]]

\* Track.feed raises when the wrapped remainder does not fit the buffer.
FeedRaises(tr, packet) ==
    LET cap == Len(tr.buffer)
        end_space == cap - tr.buffer_index
    IN  /\ tr.buffer_index + Len(packet) > cap
        /\ Len(packet) - end_space > cap

\* Variant of Feed whose contiguous write leaves the cursor without the modulo.
FeedNoModulo(tr, packet) ==
    LET packet_size == Len(packet)
        cap == Len(tr.buffer)
        bi == tr.buffer_index
    IN  IF bi + packet_size > cap THEN
            LET end_space == cap - bi
                b1 == [c \in 1..cap |->
                         IF end_space > 0 /\ c > bi THEN packet[c - bi] ELSE tr.buffer[c]]
                b2 == [c \in 1..cap |->
                         IF c <= packet_size - end_space THEN packet[end_space + c] ELSE b1[c]]
            IN  [tr EXCEPT !.buffer = b2, !.buffer_index = packet_size - end_space]
        ELSE
            [tr EXCEPT !.buffer = [c \in 1..cap |->
                                     IF c > bi /\ c <= bi + packet_size
                                     THEN packet[c - bi] ELSE tr.buffer[c]],
                       !.buffer_index = bi + packet_size]

\* Variant of Feed whose wrapping write does not fill the tail of the buffer.
FeedSkipsTail(tr, packet) ==
    LET packet_size == Len(packet)
        cap == Len(tr.buffer)
        bi == tr.buffer_index
    IN  IF bi + packet_size > cap THEN
            LET end_space == cap - bi
                b2 == [c \in 1..cap |->
                         IF c <= packet_size - end_space THEN packet[end_space + c]
                         ELSE tr.buffer[c]]
            IN  [tr EXCEPT !.buffer = b2, !.buffer_index = packet_size - end_space]
        ELSE
            [tr EXCEPT !.buffer = [c \in 1..cap |->
                                     IF c > bi /\ c <= bi + packet_size
                                     THEN packet[c - bi] ELSE tr.buffer[c]],
                       !.buffer_index = (bi + packet_size) % cap]

Feed(tr, packet) ==
    LET packet_size == Len(packet)
        cap == Len(tr.buffer)
        bi == tr.buffer_index
    IN  IF bi + packet_size > cap THEN
            LET end_space == cap - bi
                b1 == [c \in 1..cap |->
                         IF end_space > 0 /\ c > bi THEN packet[c - bi] ELSE tr.buffer[c]]
                b2 == [c \in 1..cap |->
                         IF c <= packet_size - end_space THEN packet[end_space + c] ELSE b1[c]]
            IN  [tr EXCEPT !.buffer = b2, !.buffer_index = packet_size - end_space]
        ELSE
            [tr EXCEPT !.buffer = [c \in 1..cap |->
                                     IF c > bi /\ c <= bi + packet_size
                                     THEN packet[c - bi] ELSE tr.buffer[c]],
                       !.buffer_index = (bi + packet_size) % cap]

\* for track in self.tracks: track.feed(processed[idx:idx+n]); idx += n
\* The value of idx when the loop reaches track t.
RECURSIVE FeedIdx(_, _)
FeedIdx(trs, t) == IF t = 1 THEN 0 ELSE FeedIdx(trs, t - 1) + trs[t - 1].num_channels

\* The loop stops at the first track whose feed raises; the tracks before it
\* have been written.
FeedTracks(trs, processed, nchannels) ==
    LET packet == [t \in 1..Len(trs) |->
                      RowSlice(processed, FeedIdx(trs, t), trs[t].num_channels, nchannels)]
        raising == {t \in 1..Len(trs) : FeedRaises(trs[t], packet[t])}
    IN  [tracks |-> [t \in 1..Len(trs) |->
                        IF \E r \in raising : r <= t THEN trs[t] ELSE Feed(trs[t], packet[t])],
         raised |-> raising # {}]

\* A Track of one row on its own, built with Track(title, TrackFrequency, 1, ...):
\* the samples fed are numbered 1, 2, 3, ... and 0 is the np.zeros filling.
TrackFrequency == 10

\* The entries of the plot time selector, in milliseconds.
PlotTimes == {100, 250, 500, 1000, 5000, 10000}

UnitTrack(cap) == [buffer |-> [c \in 1..cap |-> 0], buffer_index |-> 0]

\* The body of the loop of TrackManager.change_plot_time for one track:
\* new_buf[:, -copy:] = track.buffer[:, -copy:]; buffer_index = min(buffer_index, new).
Resize(tr, new_cap) ==
    LET old_cap == Len(tr.buffer)
        copy == Min(new_cap, old_cap)
    IN  [tr EXCEPT !.buffer = [c \in 1..new_cap |->
                                 IF c > new_cap - copy
                                 THEN tr.buffer[old_cap - (new_cap - c)] ELSE 0],
                   !.buffer_index = Min(tr.buffer_index, new_cap)]

\* Python's reading of a slice bound i on a sequence of n columns.
PyIndex(i, n) == IF i < 0 THEN Max(i + n, 0) ELSE Min(i, n)

\* values[start:stop]
PySlice(values, start, stop) ==
    LET lo == PyIndex(start, Len(values))
        hi == PyIndex(stop, Len(values))
    IN  IF hi > lo THEN SubSeq(values, lo + 1, hi) ELSE <<>>

\* buffer[:, start:stop] = values as numpy does it: the column counts must
\* agree, except that one column is broadcast; otherwise it raises ValueError.
SetSlice(buffer, start, stop, values) ==
    LET lo == PyIndex(start, Len(buffer))
        hi == PyIndex(stop, Len(buffer))
        slots == Max(hi - lo, 0)
    IN  IF Len(values) = slots
        THEN [raised |-> FALSE,
              buffer |-> [c \in 1..Len(buffer) |->
                            IF c > lo /\ c <= hi THEN values[c - lo] ELSE buffer[c]]]
        ELSE IF Len(values) = 1
        THEN [raised |-> FALSE,
              buffer |-> [c \in 1..Len(buffer) |->
                            IF c > lo /\ c <= hi THEN values[1] ELSE buffer[c]]]
        ELSE [raised |-> TRUE, buffer |-> buffer]

NotFeeding == [pc |-> "idle", packet |-> <<>>, end_space |-> 0]
NotResizing == [pc |-> "idle", new_buf |-> <<>>]

\* ---------------------------------------------------------------- receiver
ExpectedBytes(dev) == dev.nchannels * 2 * (dev.frequency \div 16)

StreamLimit == MaxStreamSamples * 2 * device.nchannels

\* Sizes of the chunks a recv(bufsize) call can return.
ChunkSizes(bufsize) ==
    {k \in {50, 100, 138, ExpectedBytes(device), 2 * ExpectedBytes(device), bufsize} :
        k >= 1 /\ k <= bufsize /\ pos + k <= StreamLimit}

\* The outcome recorded for a recv that timed out: consecutive timeouts alternate
\* between "timeout" and "timeout_again".
TimeoutMark == IF io = "timeout" THEN "timeout_again" ELSE "timeout"

TimedOut(outcome) == outcome \in {"timeout", "timeout_again"}

\* What a recv call can do: return k bytes, time out, return b'' or raise.
RecvOutcomes(bufsize) ==
    IF sock = "open"
    THEN {<<"data", k>> : k \in ChunkSizes(bufsize)} \cup
         {<<"timeout", 0>>, <<"eof", 0>>, <<"reset", 0>>}
    ELSE {<<sock, 0>>}

\* Variant of OnTimeout that leaves the loop when the timeout hits while streaming.
OnTimeoutExitWhenStreaming(run) == IF run THEN "exited" ELSE "recv"

\* except TimeoutError: ... continue
OnTimeout(run) == "recv"

\* struct.unpack('>{len//2}h', data) and reshape((-1, nchannels)) succeed.
Decodable(d, nchannels) ==
    /\ d.len % 2 = 0
    /\ (d.len \div 2) % nchannels = 0

\* Variant of Branches whose final branch falls back to raw.
BranchesFinalFallsBackToRaw(raw, raised) ==
    LET filtered  == IF "filtered" \in raised THEN raw ELSE PipelineRun("filtered", raw)
        rectified == IF "rectified" \in raised THEN filtered
                     ELSE PipelineRun("rectified", filtered)
        processed == IF "final" \in raised THEN raw ELSE PipelineRun("final", raw)
    IN  [raw |-> raw, filtered |-> filtered, rectified |-> rectified, final |-> processed,
         raised |-> raised]

\* raw, filtered, rectified, processed of one frame; raised is the set of
\* branches whose pipeline raises on this frame.
Branches(raw, raised) ==
    LET filtered  == IF "filtered" \in raised THEN raw ELSE PipelineRun("filtered", raw)
        rectified == IF "rectified" \in raised THEN filtered
                     ELSE PipelineRun("rectified", filtered)
        processed == IF "final" \in raised THEN rectified ELSE PipelineRun("final", raw)
    IN  [raw |-> raw, filtered |-> filtered, rectified |-> rectified, final |-> processed,
         raised |-> raised]

\* stage_output emissions of one frame.
StageEvents(b, raised, n) ==
    LET ev(stage) == [frame |-> n, stage |-> stage, value |-> b[stage]]
    IN  <<ev("raw")>>
        \o (IF "filtered" \in raised THEN <<>> ELSE <<ev("filtered")>>)
        \o (IF "rectified" \in raised THEN <<>> ELSE <<ev("rectified")>>)
        \o <<ev("final")>>

NoData == [start |-> 0, len |-> 0]

\* The window has no CalibrationDialog yet.  shown: exec_() is running;
\* result: the QDialog result code; cancelled: reject() has run; emitted:
\* the calibration_complete emissions of the dialog, in order; last_event: the
\* stage_output event on_stage_output was last called with.
NoDialog ==
    [exists |-> FALSE, shown |-> FALSE, result |-> None, cancelled |-> FALSE,
     rest_rms_values |-> <<>>, contraction_rms_values |-> <<>>,
     remaining_time |-> 0, current_phase |-> None, countdown_active |-> FALSE,
     subscription_connected |-> FALSE, start_enabled |-> FALSE, emitted |-> <<>>,
     last_event |-> [stage_name |-> None, data |-> <<>>]]

\* No call of detect_contractions_rms_rate under way.  Indices are those of
\* the source (from 0); start_time and end_time of a triple are start_idx / fs
\* and end_idx / fs; merge_gap_samples -1 stands for None, start_idx -1 for None;
\* drms_dt_smooth holds the smoothed rate times 2 * smoothing_window / fs.
NoDetection ==
    [rms_data |-> <<>>, fs |-> 1, rate_threshold |-> 1, min_duration_samples |-> 1,
     smoothing_window |-> 1, hysteresis_factor |-> <<1, 1>>, merge_gap_samples |-> -1,
     bump |-> [lead |-> 0, rise |-> 0, plateau |-> 0, fall |-> 0, tail |-> 0],
     done |-> FALSE, drms_dt_smooth |-> <<>>, onset_mask |-> <<>>, offset_mask |-> <<>>,
     starts |-> <<>>, ends |-> <<>>, scanned |-> <<>>, contractions |-> <<>>]

\* The names the application asks the registry for.
RegistryNames == {"raw", "filtered", "final"}

\* _PIPELINES after import of pipeline.py.  pipelines maps a name to the
\* instance stored under it (0: the name is not a key); instances[i] is the
\* stages list of the i-th ProcessingPipeline constructed, which lives on in
\* its callers after a clear; calls is the history of calls, each with the
\* instance it returned and the stages that instance had at the return.
NoRegistry ==
    [pipelines |-> [n \in RegistryNames |-> 0], instances |-> <<>>, calls |-> <<>>]

\* No create_command call under way.
NoCommand ==
    [FSAMP |-> 2, NCH |-> 3, MODE |-> 0, HRES |-> 0, HPF |-> 0, EXTEN |-> 0,
     TRIG |-> 0, REC |-> 0, GO |-> 1, done |-> FALSE, nchannels |-> 72,
     frequency |-> 2000, Command |-> 0]


\* The SoundtrackWindow after construction, as the button handlers of main.py
\* see it: no receiver thread, no controller, no socket.  connected: the
\* signals of the receiver connected so far; critical: the messages shown by
\* QMessageBox.critical; status: the texts passed to update_status;
\* button: the text of the stream button; handler: the button handler that
\* ran last; clicks: clicks handled.
NoWindow ==
    [receiver_thread |-> None, streaming_controller |-> None, client_socket |-> None,
     connected |-> {}, critical |-> <<>>, status |-> <<>>,
     button |-> "Start Live Stream", handler |-> None, clicks |-> 0]

\* A StreamingController after construction with no receiver.  thread is the
\* QThread state of its receiver ("unstarted" | "alive" | "finished"),
\* restartable tells whether start() of a thread that is not running succeeds,
\* running is the receiver's flag; returned is what the last call returned
\* and method its name; calls counts the calls made.
NoController ==
    [receiver_thread |-> None, thread |-> "unstarted", restartable |-> TRUE,
     running |-> FALSE, is_streaming |-> FALSE, is_paused |-> FALSE,
     timer_active |-> FALSE, status_update |-> <<>>, method |-> None,
     returned |-> None, calls |-> 0]

\* None of the units below is exercised.
NoUnits ==
    /\ registry = NoRegistry
    /\ command = NoCommand
    /\ window = NoWindow
    /\ controller = NoController

\* No computation under way.
NoComputation ==
    [rest_rms_values |-> <<>>, contraction_rms_values |-> <<>>, done |-> FALSE,
     mvc_before_repair |-> NoArray,
     result |-> [baseline_rms |-> NoArray, threshold |-> NoArray, mvc_rms |-> NoArray]]

\* The program after construction, no computation considered.
InitProgram ==
    /\ device \in [nchannels : ChannelCounts, frequency : Frequencies]
    /\ PIPELINES \in PipelineConfigs
    /\ tracks = InitTracks(device)
    /\ sock = "open"
    /\ pos = 0
    /\ pc = "unstarted"
    /\ running = FALSE
    /\ first_packet = TRUE
    /\ packet_bytes = 0
    /\ data = NoData
    /\ packet_count = 0
    /\ frames = <<>>
    /\ events = <<>>
    /\ data_received = <<>>
    /\ status_updates = <<>>
    /\ io = "none"
    /\ is_streaming = FALSE
    /\ is_paused = FALSE
    /\ timer_active = FALSE
    /\ stop_requested = FALSE
    /\ window_closed = FALSE
    /\ dialog = NoDialog
    /\ is_calibrated = FALSE
    /\ baseline_rms = NoArray
    /\ threshold = NoArray
    /\ mvc_rms = NoArray
    /\ track = UnitTrack(PlotCapacity(DEFAULT_PLOT_TIME * 1000, TrackFrequency))
    /\ samples_fed = <<>>
    /\ joined = track
    /\ resizes = 0
    /\ feeding = NotFeeding
    /\ resizing = NotResizing

Init ==
    InitProgram /\ computation = NoComputation /\ detection = NoDetection /\ NoUnits

\* Top of the loop: the recv of line 53 or 61 and the checks up to line 68.
RecvTop ==
    /\ pc = "recv"
    /\ LET bufsize == IF first_packet THEN RecvBufFirst ELSE packet_bytes IN
       \E o \in RecvOutcomes(bufsize) :
          /\ io' = IF o[1] = "timeout" THEN TimeoutMark ELSE o[1]
          /\ CASE o[1] = "timeout" ->
                    /\ pc' = OnTimeout(running)
                    /\ data' = NoData
                    /\ UNCHANGED <<sock, pos, first_packet, packet_bytes>>
               [] o[1] = "reset" ->
                    /\ pc' = "exited"
                    /\ sock' = "reset"
                    /\ data' = NoData
                    /\ UNCHANGED <<pos, first_packet, packet_bytes>>
               [] o[1] = "eof" ->
                    /\ pc' = "exited"
                    /\ sock' = "eof"
                    /\ data' = NoData
                    /\ UNCHANGED <<pos, first_packet, packet_bytes>>
               [] OTHER ->
                    LET k == o[2]
                        pb == IF first_packet THEN k ELSE packet_bytes
                    IN  /\ packet_bytes' = pb
                        /\ first_packet' = FALSE
                        /\ data' = [start |-> pos, len |-> k]
                        /\ pos' = pos + k
                        /\ pc' = IF k # pb THEN "retry" ELSE "process"
                        /\ UNCHANGED sock
    /\ UNCHANGED <<running, packet_count, frames, events, data_received, status_updates,
                   tracks, cfgVars, computation, detection, unitVars, ctlVars, calVars, trkVars, raceVars>>

\* The inner loop of lines 71-76 (one test and one recv) and the test of line 78.
RecvRest ==
    /\ pc = "retry"
    /\ IF data.len < packet_bytes /\ running
       THEN \E o \in RecvOutcomes(packet_bytes - data.len) :
              /\ io' = IF o[1] = "timeout" THEN TimeoutMark ELSE o[1]
              /\ CASE o[1] = "timeout" ->
                        /\ pc' = OnTimeout(running)
                        /\ data' = NoData
                        /\ UNCHANGED <<sock, pos>>
                   [] o[1] = "reset" ->
                        /\ pc' = "exited"
                        /\ sock' = "reset"
                        /\ data' = NoData
                        /\ UNCHANGED pos
                   [] o[1] = "eof" ->
                        /\ pc' = "recv"
                        /\ sock' = "eof"
                        /\ data' = NoData
                        /\ UNCHANGED pos
                   [] OTHER ->
                        /\ data' = [data EXCEPT !.len = @ + o[2]]
                        /\ pos' = pos + o[2]
                        /\ pc' = "retry"
                        /\ UNCHANGED sock
       ELSE /\ IF data.len # packet_bytes
               THEN pc' = "recv" /\ data' = NoData
               ELSE pc' = "process" /\ data' = data
            /\ UNCHANGED <<sock, pos, io>>
    /\ UNCHANGED <<running, first_packet, packet_bytes, packet_count, frames, events,
                   data_received, status_updates, tracks, cfgVars, computation, detection, unitVars, ctlVars, calVars, trkVars, raceVars>>

\* Lines 82-154: decode, run the branches, emit, feed the tracks, count.
ProcessPacket ==
    /\ pc = "process"
    /\ IF ~Decodable(data, device.nchannels)
       THEN /\ pc' = "exited"
            /\ data' = NoData
            /\ UNCHANGED <<packet_count, frames, events, data_received, status_updates, tracks>>
       ELSE \E raised \in SUBSET CanRaise :
            LET b == Branches(Matrix(data.start, data.len), raised)
                fed == FeedTracks(tracks, b.final, device.nchannels)
            IN  /\ frames' = Append(frames, b)
                /\ events' = events \o StageEvents(b, raised, packet_count)
                /\ IF running
                   THEN /\ tracks' = fed.tracks
                        /\ IF fed.raised
                           THEN /\ pc' = "exited"
                                /\ UNCHANGED <<packet_count, data_received, status_updates>>
                           ELSE /\ pc' = "recv"
                                /\ data_received' = Append(data_received, b.final)
                                /\ packet_count' = packet_count + 1
                                /\ status_updates' =
                                      IF (packet_count + 1) % FpsInterval = 0
                                      THEN Append(status_updates, "Data rate")
                                      ELSE status_updates
                   ELSE /\ pc' = "recv"
                        /\ packet_count' = packet_count + 1
                        /\ UNCHANGED <<tracks, data_received, status_updates>>
                /\ data' = NoData
    /\ UNCHANGED <<sock, pos, running, first_packet, packet_bytes, io, cfgVars, computation, detection, unitVars, ctlVars,
                   calVars, trkVars, raceVars>>

\* ---------------------------------------------------- streaming controller
ThreadIsRunning == pc \in {"recv", "retry", "process"}

\* StreamingController.start_streaming with a receiver bound to it.
StartStreaming ==
    /\ is_streaming' = TRUE
    /\ is_paused' = FALSE
    /\ running' = TRUE
    /\ IF ThreadIsRunning
       THEN UNCHANGED <<pc, first_packet, packet_bytes, data>>
       ELSE /\ pc' = "recv"
            /\ first_packet' = TRUE
            /\ packet_bytes' = 0
            /\ data' = NoData
    /\ timer_active' = TRUE

\* StreamingController.stop_streaming: pause.
StopStreaming ==
    /\ is_streaming' = FALSE
    /\ is_paused' = TRUE
    /\ timer_active' = FALSE
    /\ running' = FALSE
    /\ UNCHANGED <<pc, first_packet, packet_bytes, data>>

\* SoundtrackWindow.toggle_streaming (the stream button).
ToggleStreaming ==
    /\ ~window_closed /\ ~stop_requested
    /\ IF is_streaming THEN StopStreaming ELSE StartStreaming
    /\ UNCHANGED <<sock, pos, packet_count, frames, events, data_received, status_updates, io,
                   tracks, cfgVars, computation, detection, unitVars, stop_requested, window_closed, calVars, trkVars, raceVars>>

\* DataReceiverThread.stop.
ReceiverStop ==
    /\ ThreadIsRunning
    /\ ~window_closed /\ ~stop_requested
    /\ running' = FALSE
    /\ stop_requested' = TRUE
    /\ UNCHANGED <<sock, pos, pc, first_packet, packet_bytes, data, packet_count, frames, events,
                   data_received, status_updates, io, tracks, cfgVars, computation, detection, unitVars,
                   is_streaming, is_paused, timer_active, window_closed, calVars, trkVars, raceVars>>

\* SoundtrackWindow.closeEvent (the definition in force, the last in the class).
CloseEvent ==
    /\ ~window_closed /\ ~stop_requested
    /\ window_closed' = TRUE
    /\ IF is_streaming
       THEN StopStreaming
       ELSE UNCHANGED <<is_streaming, is_paused, timer_active, running,
                        pc, first_packet, packet_bytes, data>>
    /\ UNCHANGED <<sock, pos, packet_count, frames, events, data_received, status_updates, io,
                   tracks, cfgVars, computation, detection, unitVars, stop_requested, calVars, trkVars, raceVars>>

\* ------------------------------------------------------------- calibration
\* A 'filtered' matrix handed to the dialog is a sequence of rows (one per
\* channel), each row a sequence of int16 samples.
NonSaturated(v) == v > -SaturationThreshold /\ v < SaturationThreshold

\* np.sqrt(np.mean(valid_samples**2)), 0.0 when every sample is saturated.  The
\* rows used here are those whose mean square is the square of a sample.
Rms(row) ==
    LET valid == SelectSeq(row, NonSaturated)
        sumsq == SeqSum([i \in 1..Len(valid) |-> valid[i] * valid[i]])
    IN  IF Len(valid) = 0 THEN 0
        ELSE CHOOSE r \in {Abs(valid[i]) : i \in 1..Len(valid)} : r * r * Len(valid) = sumsq

RmsPerChannel(matrix) == [c \in 1..Len(matrix) |-> Rms(matrix[c])]

\* array[:, c] of a list of per-channel vectors.
ColumnOf(vectors, c) == [i \in 1..Len(vectors) |-> vectors[i][c]]

\* np.mean(rest_array, axis=0)
BaselineRms(rest) ==
    [c \in 1..Len(rest[1]) |-> Rat(SeqSum(ColumnOf(rest, c)), Len(rest))]

\* Variant of BaselineVar that returns the mean square.
BaselineMeanSquare(rest) ==
    [c \in 1..Len(rest[1]) |->
        LET col == ColumnOf(rest, c)
            n == Len(rest)
            sumsq == SeqSum([i \in 1..n |-> col[i] * col[i]])
        IN  Rat(sumsq, n)]

\* np.std(rest_array, axis=0) squared: the population variance.
BaselineVar(rest) ==
    [c \in 1..Len(rest[1]) |->
        LET col == ColumnOf(rest, c)
            n == Len(rest)
            sum == SeqSum(col)
            sumsq == SeqSum([i \in 1..n |-> col[i] * col[i]])
        IN  Rat(n * sumsq - sum * sum, n * n)]

\* baseline_rms + 3.0 * baseline_std, kept as mean + k * sqrt(var).
Threshold(rest) ==
    [c \in 1..Len(rest[1]) |->
        [mean |-> BaselineRms(rest)[c], k |-> ThresholdK, var |-> BaselineVar(rest)[c]]]

\* np.percentile(xs, q) with linear interpolation, xs a non-empty sequence of integers.
Percentile(xs, q) ==
    LET sorted == SortSeq(xs, <)
        n == Len(xs)
        h == q * (n - 1)
        lo == h \div 100
        frac == h % 100
    IN  Rat(100 * sorted[lo + 1] + frac * (sorted[Min(lo + 2, n)] - sorted[lo + 1]), 100)

\* The loop of compute_threshold_and_close over the channels.
MvcRms(contraction) ==
    [c \in 1..Len(contraction[1]) |->
        LET non_saturated == SelectSeq(ColumnOf(contraction, c), NonSaturated)
        IN  IF Len(non_saturated) > 0 THEN Percentile(non_saturated, MvcPercentile)
            ELSE RInt(0)]

\* Variant of NeighbourOffsets without the diagonal cells.
NeighbourOffsetsCross == << <<-1, 0>>, <<0, -1>>, <<0, 1>>, <<1, 0>> >>

\* The 3x3 window of lines 113-116, centre excluded.
NeighbourOffsets ==
    << <<-1, -1>>, <<-1, 0>>, <<-1, 1>>, <<0, -1>>, <<0, 1>>, <<1, -1>>, <<1, 0>>, <<1, 1>> >>

\* channel_idx = col * 8 + (7 - row), as a 1-based position.
ChannelIdx(row, col) == col * 8 + (7 - row) + 1

\* np.median(mvc_rms[:64]) of line 90.
MedianMvc(mvc) ==
    LET sorted == SortSeq(SubSeq(mvc, 1, 64), RLess)
    IN  RDivInt(RAdd(sorted[32], sorted[33]), 2)

\* Variant of LowThreshold at a fifth of the median.
LowThresholdFifth(mvc) == RDivInt(MedianMvc(mvc), 5)

\* median_mvc * 0.1 of line 91.
LowThreshold(mvc) == RDivInt(MedianMvc(mvc), 10)

\* Variant of NeighbourValue that reads the grid as it was before the sweep.
NeighbourValueBeforeSweep(grid, grid_channels, idx) == grid_channels[idx]

\* neighbor_val = grid[nr, nc] of line 119: read from the grid the sweep
\* writes to (line 126), not from the copy of line 87.
NeighbourValue(grid, grid_channels, idx) == grid[idx]

\* Variant of AboveThreshold with the comparison the other way round.
BelowThreshold(neighbor_val, low_threshold) == RLess(neighbor_val, low_threshold)

\* The test of line 121.
AboveThreshold(neighbor_val, low_threshold) == ~RLess(neighbor_val, low_threshold)

\* CalibrationDialog._fix_low_channels_spatial on a sequence of fractions.
FixLowChannelsSpatial(mvc) ==
    IF Len(mvc) < 64 THEN mvc
    ELSE
        LET grid_channels == SubSeq(mvc, 1, 64)
            median_mvc == MedianMvc(mvc)
            low_threshold == LowThreshold(mvc)
            RECURSIVE Sweep(_, _)
            Sweep(grid, k) ==
                IF k = 64 THEN grid
                ELSE
                    LET col == k \div 8
                        row == k % 8
                        InGrid(o) == /\ row + o[1] >= 0 /\ row + o[1] < 8
                                     /\ col + o[2] >= 0 /\ col + o[2] < 8
                        Neighbour(o) ==
                            NeighbourValue(grid, grid_channels,
                                           ChannelIdx(row + o[1], col + o[2]))
                        Valid(o) == /\ InGrid(o)
                                    /\ AboveThreshold(Neighbour(o), low_threshold)
                        offs == SelectSeq(NeighbourOffsets, Valid)
                        neighbors == [i \in 1..Len(offs) |-> Neighbour(offs[i])]
                    IN  IF RLess(grid[ChannelIdx(row, col)], low_threshold)
                        THEN Sweep([grid EXCEPT ![ChannelIdx(row, col)] =
                                        IF neighbors # <<>>
                                        THEN RDivInt(RSum(neighbors), Len(neighbors))
                                        ELSE median_mvc],
                                   k + 1)
                        ELSE Sweep(grid, k + 1)
        IN  Sweep(grid_channels, 0) \o SubSeq(mvc, 65, Len(mvc))

\* Variant of CalibrationResult whose mvc array covers the 8x8 grid only.
CalibrationResultGridOnly(rest, contraction) ==
    [baseline_rms |-> BaselineRms(rest),
     threshold |-> Threshold(rest),
     mvc_rms |-> SubSeq(FixLowChannelsSpatial(MvcRms(contraction)), 1, 64)]

\* The three arrays calibration_complete carries.
CalibrationResult(rest, contraction) ==
    [baseline_rms |-> BaselineRms(rest),
     threshold |-> Threshold(rest),
     mvc_rms |-> FixLowChannelsSpatial(MvcRms(contraction))]

\* CalibrationDialog.__init__ followed by exec_().
NewDialog == [NoDialog EXCEPT !.exists = TRUE, !.shown = TRUE, !.start_enabled = TRUE]

\* compute_threshold_and_close; the slot on_calibration_complete runs inside emit.
ComputeThresholdAndClose(d) ==
    IF \/ Len(d.rest_rms_values) < MinSamplesRequired
       \/ Len(d.contraction_rms_values) < MinSamplesRequired
    THEN [d EXCEPT !.start_enabled = TRUE, !.current_phase = None]
    ELSE [d EXCEPT !.subscription_connected = FALSE,
                   !.emitted = Append(@, CalibrationResult(d.rest_rms_values,
                                                           d.contraction_rms_values)),
                   !.result = "accepted",
                   !.shown = FALSE]

\* tick_countdown, start_contraction_phase (which ticks once itself).
RECURSIVE TickCountdown(_)
StartContractionPhase(d) ==
    TickCountdown([d EXCEPT !.current_phase = "contraction",
                            !.remaining_time = CONTRACTION_DURATION,
                            !.countdown_active = TRUE])

\* Variant of TickCountdown that leaves the phase when the counter reaches 0.
TickCountdownLeavesAtZero(d) ==
    LET d1 == [d EXCEPT !.remaining_time = @ - 1] IN
    IF d1.remaining_time <= 0
    THEN LET d2 == [d1 EXCEPT !.countdown_active = FALSE] IN
         IF d2.current_phase = "rest" THEN StartContractionPhase(d2)
         ELSE IF d2.current_phase = "contraction" THEN ComputeThresholdAndClose(d2)
         ELSE d2
    ELSE d1

TickCountdown(d) ==
    LET d1 == [d EXCEPT !.remaining_time = @ - 1] IN
    IF d1.remaining_time < 0
    THEN LET d2 == [d1 EXCEPT !.countdown_active = FALSE] IN
         IF d2.current_phase = "rest" THEN StartContractionPhase(d2)
         ELSE IF d2.current_phase = "contraction" THEN ComputeThresholdAndClose(d2)
         ELSE d2
    ELSE d1

StartRestPhase(d) ==
    TickCountdown([d EXCEPT !.current_phase = "rest",
                            !.remaining_time = REST_DURATION,
                            !.countdown_active = TRUE])

\* start_calibration; the dialog was built with the window's receiver thread.
StartCalibrationOf(d) ==
    StartRestPhase([d EXCEPT !.rest_rms_values = <<>>,
                             !.contraction_rms_values = <<>>,
                             !.start_enabled = FALSE,
                             !.subscription_connected = TRUE])

\* on_stage_output without the stage-name test of line 191.
OnStageOutputAnyStage(d, stage_name, matrix) ==
    IF d.countdown_active
    THEN IF d.current_phase = "rest"
         THEN [d EXCEPT !.rest_rms_values = Append(@, RmsPerChannel(matrix))]
         ELSE IF d.current_phase = "contraction"
         THEN [d EXCEPT !.contraction_rms_values = Append(@, RmsPerChannel(matrix))]
         ELSE d
    ELSE d

OnStageOutputOf(d, stage_name, matrix) ==
    IF stage_name = "filtered" /\ d.countdown_active
    THEN IF d.current_phase = "rest"
         THEN [d EXCEPT !.rest_rms_values = Append(@, RmsPerChannel(matrix))]
         ELSE IF d.current_phase = "contraction"
         THEN [d EXCEPT !.contraction_rms_values = Append(@, RmsPerChannel(matrix))]
         ELSE d
    ELSE d

\* QDialog.reject, the only slot of the Cancel button.
Reject(d) == [d EXCEPT !.result = "rejected", !.shown = FALSE, !.cancelled = TRUE]

\* on_calibration_complete for every emission the step from d to e made.
WindowAfter(d, e) ==
    IF Len(e.emitted) > Len(d.emitted)
    THEN LET r == e.emitted[Len(e.emitted)] IN
         /\ is_calibrated' = TRUE
         /\ baseline_rms' = r.baseline_rms
         /\ threshold' = r.threshold
         /\ mvc_rms' = r.mvc_rms
    ELSE UNCHANGED <<is_calibrated, baseline_rms, threshold, mvc_rms>>

\* Rows of the matrices delivered to the dialog: quiet, strong and saturated.
CalRows == {<<10, -10>>, <<100, 32767>>, <<32767, -32768>>}

\* Matrices with channel 5 (0-based) on one row and every other channel on another.
CalMatrices ==
    {[c \in 1..device.nchannels |-> IF c = 6 THEN a ELSE b] : a, b \in CalRows}

\* SoundtrackWindow.open_calibration_dialog with a receiver thread present.
OpenCalibrationDialog ==
    /\ ~dialog.exists
    /\ ~window_closed
    /\ dialog' = NewDialog
    /\ UNCHANGED <<is_calibrated, baseline_rms, threshold, mvc_rms,
                   recvVars, ctlVars, cfgVars, computation, detection, unitVars, tracks, trkVars, raceVars>>

\* The Start button.
StartCalibration ==
    /\ dialog.shown /\ dialog.start_enabled
    /\ dialog' = StartCalibrationOf(dialog)
    /\ WindowAfter(dialog, dialog')
    /\ UNCHANGED <<recvVars, ctlVars, cfgVars, computation, detection, unitVars, tracks, trkVars, raceVars>>

\* The Cancel button.
CancelCalibration ==
    /\ dialog.shown
    /\ dialog' = Reject(dialog)
    /\ UNCHANGED <<is_calibrated, baseline_rms, threshold, mvc_rms,
                   recvVars, ctlVars, cfgVars, computation, detection, unitVars, tracks, trkVars, raceVars>>

\* One timeout of countdown_timer.
CountdownTimeout ==
    /\ dialog.countdown_active
    /\ dialog' = TickCountdown(dialog)
    /\ WindowAfter(dialog, dialog')
    /\ UNCHANGED <<recvVars, ctlVars, cfgVars, computation, detection, unitVars, tracks, trkVars, raceVars>>

\* One stage_output event of the receiver delivered to the subscribed dialog.
DeliverStageOutput ==
    /\ dialog.subscription_connected
    /\ Len(dialog.rest_rms_values) + Len(dialog.contraction_rms_values) < MaxCalVectors
    /\ \E stage_name \in {"raw", "filtered", "rectified", "final"}, matrix \in CalMatrices :
          dialog' = [OnStageOutputOf(dialog, stage_name, matrix) EXCEPT
                        !.last_event = [stage_name |-> stage_name, data |-> matrix]]
    /\ UNCHANGED <<is_calibrated, baseline_rms, threshold, mvc_rms,
                   recvVars, ctlVars, cfgVars, computation, detection, unitVars, tracks, trkVars, raceVars>>

\* ------------------------------------------------------- a track on its own
\* The next n samples to feed: numbered on from the samples fed so far.
NextSamples(from, n) == [i \in 1..n |-> from + i]

\* One Track.feed call with a packet of at most capacity samples.
TrackFeed ==
    /\ \E n \in 1..Min(Len(track.buffer), MaxFedSamples - Len(samples_fed)) :
          LET packet == NextSamples(Len(samples_fed), n) IN
          /\ track' = Feed(track, packet)
          /\ samples_fed' = samples_fed \o packet
    /\ joined' = track'
    /\ UNCHANGED <<resizes, recvVars, ctlVars, cfgVars, computation, detection, unitVars, calVars, tracks, raceVars>>

\* feed(a) followed by feed(b), len(a) + len(b) <= capacity; joined records
\* what feed(concat(a, b)) gives from the same track.
TrackFeedTwice ==
    /\ track.buffer_index < Len(track.buffer)
    /\ LET room == Min(Len(track.buffer), MaxFedSamples - Len(samples_fed)) IN
       \E la \in 1..(room - 1) : \E lb \in 1..(room - la) :
          LET a == NextSamples(Len(samples_fed), la)
              b == NextSamples(Len(samples_fed) + la, lb)
          IN  /\ track' = Feed(Feed(track, a), b)
              /\ joined' = Feed(track, a \o b)
              /\ samples_fed' = samples_fed \o a \o b
    /\ UNCHANGED <<resizes, recvVars, ctlVars, cfgVars, computation, detection, unitVars, calVars, tracks, raceVars>>

\* SoundtrackWindow.change_plot_time -> TrackManager.change_plot_time.
TrackChangePlotTime ==
    /\ resizes < MaxResizes
    /\ \E ms \in PlotTimes :
          track' = Resize(track, PlotCapacity(ms, TrackFrequency))
    /\ joined' = track'
    /\ resizes' = resizes + 1
    /\ UNCHANGED <<samples_fed, recvVars, ctlVars, cfgVars, computation, detection, unitVars, calVars, tracks, raceVars>>

\* ------------------------------------- feed and resize on their two threads
\* Track.feed statement by statement on the worker thread.  Line 48.
FeedCall ==
    /\ feeding.pc = "idle"
    /\ \E n \in 1..Min(MaxPacket, Min(Len(track.buffer), MaxFedSamples - Len(samples_fed))) :
          LET packet == NextSamples(Len(samples_fed), n) IN
          /\ feeding' = [pc |-> "test", packet |-> packet, end_space |-> 0]
          /\ samples_fed' = samples_fed \o packet
    /\ UNCHANGED <<track, joined, resizes, resizing, restVars>>

\* Line 50.
FeedTest ==
    /\ feeding.pc = "test"
    /\ feeding' = [feeding EXCEPT !.pc =
                      IF track.buffer_index + Len(feeding.packet) > Len(track.buffer)
                      THEN "end_space" ELSE "write"]
    /\ UNCHANGED <<track, samples_fed, joined, resizes, resizing, restVars>>

\* Line 51.
FeedEndSpace ==
    /\ feeding.pc = "end_space"
    /\ feeding' = [feeding EXCEPT !.pc = "tail",
                                  !.end_space = Len(track.buffer) - track.buffer_index]
    /\ UNCHANGED <<track, samples_fed, joined, resizes, resizing, restVars>>

\* Lines 52-53.
FeedTail ==
    /\ feeding.pc = "tail"
    /\ IF feeding.end_space > 0
       THEN LET w == SetSlice(track.buffer, track.buffer_index, Len(track.buffer),
                              PySlice(feeding.packet, 0, feeding.end_space))
            IN  /\ track' = [track EXCEPT !.buffer = w.buffer]
                /\ feeding' = [feeding EXCEPT !.pc = IF w.raised THEN "raised" ELSE "head"]
       ELSE /\ feeding' = [feeding EXCEPT !.pc = "head"]
            /\ UNCHANGED track
    /\ UNCHANGED <<samples_fed, joined, resizes, resizing, restVars>>

\* Line 54.
FeedHead ==
    /\ feeding.pc = "head"
    /\ LET w == SetSlice(track.buffer, 0, Len(feeding.packet) - feeding.end_space,
                         PySlice(feeding.packet, feeding.end_space, Len(feeding.packet)))
       IN  /\ track' = [track EXCEPT !.buffer = w.buffer]
           /\ feeding' = [feeding EXCEPT !.pc = IF w.raised THEN "raised" ELSE "cursor"]
    /\ UNCHANGED <<samples_fed, joined, resizes, resizing, restVars>>

\* Line 55.
FeedCursor ==
    /\ feeding.pc = "cursor"
    /\ track' = [track EXCEPT !.buffer_index = Len(feeding.packet) - feeding.end_space]
    /\ feeding' = NotFeeding
    /\ UNCHANGED <<samples_fed, joined, resizes, resizing, restVars>>

\* Line 57.
FeedWrite ==
    /\ feeding.pc = "write"
    /\ LET w == SetSlice(track.buffer, track.buffer_index,
                         track.buffer_index + Len(feeding.packet), feeding.packet)
       IN  /\ track' = [track EXCEPT !.buffer = w.buffer]
           /\ feeding' = [feeding EXCEPT !.pc = IF w.raised THEN "raised" ELSE "advance"]
    /\ UNCHANGED <<samples_fed, joined, resizes, resizing, restVars>>

\* Line 58.
FeedAdvance ==
    /\ feeding.pc = "advance"
    /\ track' = [track EXCEPT !.buffer_index =
                    (track.buffer_index + Len(feeding.packet)) % Len(track.buffer)]
    /\ feeding' = NotFeeding
    /\ UNCHANGED <<samples_fed, joined, resizes, resizing, restVars>>

\* TrackManager.change_plot_time statement by statement on the UI thread.
\* Lines 113-116: new_buf is built from the buffer of the track.
ResizeCall ==
    /\ resizing.pc = "idle"
    /\ resizes < MaxResizes
    /\ \E ms \in PlotTimes :
          resizing' = [pc |-> "assign_buffer",
                       new_buf |-> Resize(track, PlotCapacity(ms, TrackFrequency)).buffer]
    /\ resizes' = resizes + 1
    /\ UNCHANGED <<track, samples_fed, joined, feeding, restVars>>

\* Line 119.
ResizeAssignBuffer ==
    /\ resizing.pc = "assign_buffer"
    /\ track' = [track EXCEPT !.buffer = resizing.new_buf]
    /\ resizing' = [resizing EXCEPT !.pc = "assign_index"]
    /\ UNCHANGED <<samples_fed, joined, resizes, feeding, restVars>>

\* Line 120.
ResizeAssignIndex ==
    /\ resizing.pc = "assign_index"
    /\ track' = [track EXCEPT !.buffer_index = Min(track.buffer_index, Len(track.buffer))]
    /\ resizing' = NotResizing
    /\ UNCHANGED <<samples_fed, joined, resizes, feeding, restVars>>

\* Track.feed on the worker thread.
FeedThread ==
    \/ FeedCall \/ FeedTest \/ FeedEndSpace \/ FeedTail \/ FeedHead
    \/ FeedCursor \/ FeedWrite \/ FeedAdvance

\* change_plot_time on the UI thread.
ResizeThread == ResizeCall \/ ResizeAssignBuffer \/ ResizeAssignIndex

Worker == RecvTop \/ RecvRest \/ ProcessPacket

Next ==
    \/ RecvTop
    \/ RecvRest
    \/ ProcessPacket
    \/ ToggleStreaming
    \/ ReceiverStop
    \/ CloseEvent

vars == <<device, PIPELINES, tracks, sock, pos, pc, running, first_packet, packet_bytes,
          data, packet_count, frames, events, data_received, status_updates, io,
          is_streaming, is_paused, timer_active, stop_requested, window_closed,
          dialog, is_calibrated, baseline_rms, threshold, mvc_rms,
          track, samples_fed, joined, resizes, feeding, resizing, computation,
          detection, registry, command, window, controller>>

Spec == Init /\ [][Next]_vars

\* The worker thread is scheduled whenever it can take a step.  The 72-channel
\* device with the application's pipelines.
InitApp == Init /\ device.nchannels = 72 /\ PIPELINES = AppPipelines

FairSpec == InitApp /\ [][Next]_vars /\ WF_vars(Worker)

\* The calibration dialog of the same application, driven by the user, the
\* countdown timer and the events of the receiver.
CalNext ==
    \/ OpenCalibrationDialog
    \/ StartCalibration
    \/ CancelCalibration
    \/ CountdownTimeout
    \/ DeliverStageOutput

CalSpec == InitApp /\ [][CalNext]_vars

\* One track, fed by its owner and resized from the plot time selector, each
\* call running to its end before the next.
TrackNext ==
    \/ TrackFeed
    \/ TrackFeedTwice
    \/ TrackChangePlotTime

TrackSpec == InitApp /\ [][TrackNext]_vars

\* The same track with the feed on the worker thread and the resize on the UI
\* thread, interleaved statement by statement.
RaceNext ==
    \/ FeedCall
    \/ FeedTest
    \/ FeedEndSpace
    \/ FeedTail
    \/ FeedHead
    \/ FeedCursor
    \/ FeedWrite
    \/ FeedAdvance
    \/ ResizeCall
    \/ ResizeAssignBuffer
    \/ ResizeAssignIndex

RaceSpec == InitApp /\ [][RaceNext]_vars

\* ---------------------------------------- compute_threshold_and_close alone
MaxVectors == 5

\* n vectors of nch channels, every entry v.
ConstantVectors(n, nch, v) == [i \in 1..n |-> [c \in 1..nch |-> v]]

\* The lists compute_threshold_and_close is applied to: rest vectors that are
\* constant, or whose last vector is higher on channel 1; contraction vectors
\* that are constant, or weak on channel 1 in every vector.
ComputeInputs ==
    { [NoComputation EXCEPT
          !.rest_rms_values =
              [ConstantVectors(n, nch, r) EXCEPT ![n][1] = r + dr],
          !.contraction_rms_values =
              [i \in 1..m |-> [ConstantVectors(m, nch, x)[i] EXCEPT ![1] = IF weak THEN 1 ELSE x]]] :
        n \in 1..MaxVectors, m \in 1..MaxVectors, nch \in {2, 64, 72},
        r \in {0, 10, 100}, dr \in {0, 5}, x \in {10, 100}, weak \in BOOLEAN }

ComputeInit ==
    /\ InitProgram /\ device.nchannels = 72 /\ PIPELINES = AppPipelines
    /\ computation \in ComputeInputs
    /\ detection = NoDetection
    /\ NoUnits

\* Lines 263-313 on lists that passed the test of line 251.
Compute ==
    /\ ~computation.done
    /\ Len(computation.rest_rms_values) >= MinSamplesRequired
    /\ Len(computation.contraction_rms_values) >= MinSamplesRequired
    /\ computation' = [computation EXCEPT
                          !.done = TRUE,
                          !.mvc_before_repair = MvcRms(computation.contraction_rms_values),
                          !.result = CalibrationResult(computation.rest_rms_values,
                                                       computation.contraction_rms_values)]
    /\ UNCHANGED <<recvVars, ctlVars, cfgVars, calVars, tracks, trkVars, raceVars, detection, unitVars>>

ComputeNext == Compute

\* Contraction lists for the repair pass: m vectors of nch channels at value x,
\* the channels of sat saturated in every vector, the channels of weak at w.
MaxRepairVectors == 2

RepairChannels == 1..64

\* Sets of saturated channels: none, one, two adjacent in a column, in a row
\* or on a diagonal, a 3x3 block, half of the grid, one more than half, and
\* the whole grid.
SaturatedSets ==
    {{}} \cup UNION {{{a, a + d} \cap RepairChannels : d \in {0, 1, 8, 9}} : a \in RepairChannels}
         \cup {{10, 11, 12, 18, 19, 20, 26, 27, 28}, 1..32, 1..33, 1..64}

RepairVector(nch, x, sat, weak, w) ==
    [c \in 1..nch |-> IF c \in sat THEN 32767 ELSE IF c \in weak THEN w ELSE x]

RepairInputs ==
    { [NoComputation EXCEPT
          !.rest_rms_values = ConstantVectors(1, nch, 10),
          !.contraction_rms_values = [i \in 1..m |-> RepairVector(nch, x, sat, weak, w)]] :
        m \in 1..MaxRepairVectors, nch \in {64, 72}, x \in {90, 100},
        sat \in SaturatedSets, weak \in {{}, {21}}, w \in {10} }

RepairInit ==
    /\ InitProgram /\ device.nchannels = 72 /\ PIPELINES = AppPipelines
    /\ computation \in RepairInputs
    /\ detection = NoDetection
    /\ NoUnits

RepairSpec == RepairInit /\ [][ComputeNext]_vars

\* ------------------------------------------- detect_contractions_rms_rate
\* np.gradient(rms_data, 1/fs) times 2/fs: central differences inside, one-sided
\* differences at both ends.
Gradient2(x) ==
    LET n == Len(x) IN
    [k \in 1..n |-> IF k = 1 THEN 2 * (x[2] - x[1])
                    ELSE IF k = n THEN 2 * (x[n] - x[n - 1])
                    ELSE x[k + 1] - x[k - 1]]

\* np.convolve(drms_dt, np.ones(w) / w, mode='same') times w; the gradient
\* itself when w is 1.  smoothing_window is at most len(rms_data).
SmoothSum(g, w) ==
    IF w > 1
    THEN LET off == (w - 1) \div 2 IN
         [k \in 1..Len(g) |->
            SeqSum(SubSeq(g, Max(1, k + off - (w - 1)), Min(Len(g), k + off)))]
    ELSE g

\* drms_dt_smooth > rate_threshold, with drms_dt_smooth = sum * fs / (2 * w).
OnsetMask(d) ==
    [k \in 1..Len(d.rms_data) |->
        SmoothSum(Gradient2(d.rms_data), d.smoothing_window)[k] * d.fs
            > 2 * d.smoothing_window * d.rate_threshold]

\* drms_dt_smooth < -rate_threshold * hysteresis_factor, the factor a fraction.
OffsetMask(d) ==
    [k \in 1..Len(d.rms_data) |->
        SmoothSum(Gradient2(d.rms_data), d.smoothing_window)[k] * d.fs * d.hysteresis_factor[2]
            < -(2 * d.smoothing_window * d.rate_threshold * d.hysteresis_factor[1])]

\* max(3, int(min_duration_samples * Config.REFRACTORY_PERIOD_FACTOR)), factor 0.3.
RefractoryPeriod(md) == Max(3, (3 * md) \div 10)

\* np.max(rms_data[a:b]).
SliceMax(x, a, b) ==
    LET vals == {x[k + 1] : k \in a..(b - 1)}
    IN  CHOOSE m \in vals : \A v \in vals : m >= v

\* The loop of lines 72-92 from index i on.  st holds its locals and, in
\* starts and ends, every index at which a contraction began or ended.
RECURSIVE ForwardScan(_, _, _, _, _)
ForwardScan(x, md, masks, i, st) ==
    IF i = Len(x) THEN st
    ELSE IF masks.onset[i + 1] /\ ~st.in_contraction
    THEN IF i - st.last_offset_idx > RefractoryPeriod(md)
         THEN ForwardScan(x, md, masks, i + 1,
                          [st EXCEPT !.start_idx = i, !.in_contraction = TRUE,
                                     !.starts = Append(@, i)])
         ELSE ForwardScan(x, md, masks, i + 1, st)
    ELSE IF masks.offset[i + 1] /\ st.in_contraction
    THEN LET duration == i - st.start_idx
             kept == duration >= md
         IN  ForwardScan(x, md, masks, i + 1,
                 [st EXCEPT
                     !.contractions =
                         IF kept
                         THEN Append(@, [start_idx |-> st.start_idx, end_idx |-> i,
                                         peak |-> SliceMax(x, st.start_idx, i)])
                         ELSE @,
                     !.last_offset_idx = IF kept THEN i ELSE @,
                     !.ends = Append(@, i),
                     !.in_contraction = FALSE,
                     !.start_idx = -1])
    ELSE ForwardScan(x, md, masks, i + 1, st)

\* Lines 95-101: the contraction still open at the end of the signal.
CloseAtEnd(x, md, st) ==
    IF st.in_contraction /\ st.start_idx # -1 /\ Len(x) - st.start_idx >= md
    THEN [st EXCEPT !.contractions =
                        Append(@, [start_idx |-> st.start_idx, end_idx |-> Len(x) - 1,
                                   peak |-> SliceMax(x, st.start_idx, Len(x))])]
    ELSE st

\* Pairs <<e, s>> of indices below 20 for which the float64 product
\* (s / 10 - e / 10) * 10 lies just under s - e.
TruncatedGaps10 ==
    { <<1, 3>>, <<1, 12>>, <<1, 14>>, <<1, 17>>, <<2, 3>>, <<2, 6>>, <<2, 7>>, <<3, 7>>,
      <<3, 14>>, <<3, 19>>, <<4, 5>>, <<4, 6>>, <<4, 7>>, <<4, 12>>, <<4, 14>>, <<4, 17>>,
      <<5, 6>>, <<5, 7>>, <<6, 7>>, <<6, 14>>, <<6, 19>>, <<8, 9>>, <<8, 10>>, <<8, 12>>,
      <<8, 14>>, <<8, 19>>, <<9, 10>>, <<9, 12>>, <<9, 14>>, <<9, 17>>, <<9, 19>>,
      <<10, 12>>, <<10, 14>>, <<11, 12>>, <<11, 13>>, <<11, 14>>, <<11, 15>>, <<11, 17>>,
      <<11, 19>>, <<12, 14>>, <<13, 14>>, <<13, 15>>, <<13, 17>>, <<13, 19>>, <<15, 17>>,
      <<15, 19>>, <<16, 17>>, <<16, 18>>, <<16, 19>>, <<17, 19>>, <<18, 19>> }

\* Variant of GapSamples in exact arithmetic.
GapSamplesExact(fs, e, s) == s - e

\* int((next_start - current_end) * fs) of lines 113-114 for the times s / fs
\* and e / fs, in float64: exact for fs = 2, truncated below for fs = 10 on
\* the pairs above.
GapSamples(fs, e, s) ==
    IF fs = 10 /\ <<e, s>> \in TruncatedGaps10 THEN s - e - 1 ELSE s - e

\* Variant of MergePass that also saves the current triple when it merges.
RECURSIVE MergePassSavesMerged(_, _, _, _, _, _)
MergePassSavesMerged(x, fs, gap, cs, k, st) ==
    IF k > Len(cs) THEN Append(st.merged, st.current)
    ELSE IF GapSamples(fs, st.current.end_idx, cs[k].start_idx) <= gap
    THEN MergePassSavesMerged(x, fs, gap, cs, k + 1,
             [merged |-> Append(st.merged, st.current),
              current |-> [start_idx |-> st.current.start_idx, end_idx |-> cs[k].end_idx,
                           peak |-> SliceMax(x, st.current.start_idx, cs[k].end_idx)]])
    ELSE MergePassSavesMerged(x, fs, gap, cs, k + 1,
             [merged |-> Append(st.merged, st.current), current |-> cs[k]])

\* The loop of lines 111-129 from contractions[k - 1] on (cs is 1-based).
\* int(current_start * fs) and int(current_end * fs) give back the indices.
RECURSIVE MergePass(_, _, _, _, _, _)
MergePass(x, fs, gap, cs, k, st) ==
    IF k > Len(cs) THEN Append(st.merged, st.current)
    ELSE IF GapSamples(fs, st.current.end_idx, cs[k].start_idx) <= gap
    THEN MergePass(x, fs, gap, cs, k + 1,
             [st EXCEPT !.current =
                 [start_idx |-> st.current.start_idx, end_idx |-> cs[k].end_idx,
                  peak |-> SliceMax(x, st.current.start_idx, cs[k].end_idx)]])
    ELSE MergePass(x, fs, gap, cs, k + 1,
             [merged |-> Append(st.merged, st.current), current |-> cs[k]])

\* merge_gap_samples of the call, or max(3, int(min_duration_samples * 0.5)).
MergeGap(d) ==
    IF d.merge_gap_samples = -1 THEN Max(3, d.min_duration_samples \div 2)
    ELSE d.merge_gap_samples

\* Lines 104-130.
Merged(d, cs) ==
    IF Len(cs) > 1
    THEN MergePass(d.rms_data, d.fs, MergeGap(d), cs, 2, [merged |-> <<>>, current |-> cs[1]])
    ELSE cs

\* detect_contractions_rms_rate(rms_data, fs, ...): the record of the call
\* with its masks, the list before the merge pass and the list returned.
DetectContractions(d) ==
    LET masks == [onset |-> OnsetMask(d), offset |-> OffsetMask(d)]
        st == CloseAtEnd(d.rms_data, d.min_duration_samples,
                  ForwardScan(d.rms_data, d.min_duration_samples, masks, 0,
                      [in_contraction |-> FALSE, start_idx |-> -1, last_offset_idx |-> -999,
                       contractions |-> <<>>, starts |-> <<>>, ends |-> <<>>]))
    IN  [d EXCEPT !.done = TRUE,
                  !.drms_dt_smooth = SmoothSum(Gradient2(d.rms_data), d.smoothing_window),
                  !.onset_mask = masks.onset,
                  !.offset_mask = masks.offset,
                  !.starts = st.starts,
                  !.ends = st.ends,
                  !.scanned = st.contractions,
                  !.contractions = Merged(d, st.contractions)]

MaxSeriesLen == 8
MaxRamp == 3
MaxPlateau == 3

\* Series of two levels, of every length from 3 (the widest smoothing window) on.
TwoLevelSeries == UNION {[1..n -> {0, 4}] : n \in 3..MaxSeriesLen}

\* A rise of `rise` samples, a plateau and a fall of `fall` samples between a
\* quiet lead and tail: the level climbs by `fall` per sample to rise * fall,
\* and comes down by `rise` per sample.
BumpSeries(b) ==
    LET top == b.lead + b.rise
        down == top + b.plateau
    IN  [k \in 1..(down + b.fall + b.tail) |->
            IF k <= b.lead THEN 0
            ELSE IF k <= top THEN (k - b.lead) * b.fall
            ELSE IF k <= down THEN b.rise * b.fall
            ELSE IF k <= down + b.fall THEN (down + b.fall - k) * b.rise
            ELSE 0]

Bumps ==
    [lead : 1..2, rise : 1..MaxRamp, plateau : 1..MaxPlateau, fall : 1..MaxRamp, tail : 1..2]

DetectionArguments ==
    [fs : {2, 10}, rate_threshold : {1, 5}, min_duration_samples : {1, 2},
     smoothing_window : {1, 3}, merge_gap_samples : {-1, 4}]

\* Two bursts at level 4 with a quiet gap between them, long enough for the
\* default min_duration_samples.
BurstPairSeries(b) ==
    [k \in 1..(b.lead + b.first + b.gap + b.second + b.tail) |->
        IF k <= b.lead THEN 0
        ELSE IF k <= b.lead + b.first THEN 4
        ELSE IF k <= b.lead + b.first + b.gap THEN 0
        ELSE IF k <= b.lead + b.first + b.gap + b.second THEN 4
        ELSE 0]

BurstPairs ==
    [lead : 3..4, first : 5..6, gap : 3..5, second : {5}, tail : 0..1]

\* min_duration_samples and smoothing_window of config.py with
\* merge_gap_samples left at None.
DefaultArguments ==
    [fs : {2, 10}, rate_threshold : {1}, min_duration_samples : {5},
     smoothing_window : {1, 3}, merge_gap_samples : {-1}]

DetectionInputs ==
    { [NoDetection EXCEPT !.rms_data = x, !.fs = a.fs, !.rate_threshold = a.rate_threshold,
                          !.min_duration_samples = a.min_duration_samples,
                          !.smoothing_window = a.smoothing_window,
                          !.hysteresis_factor = <<3, 5>>,
                          !.merge_gap_samples = a.merge_gap_samples] :
        x \in TwoLevelSeries, a \in DetectionArguments }
    \cup
    { [NoDetection EXCEPT !.rms_data = BumpSeries(b), !.bump = b,
                          !.fs = a.fs, !.rate_threshold = a.rate_threshold,
                          !.min_duration_samples = a.min_duration_samples,
                          !.smoothing_window = a.smoothing_window,
                          !.hysteresis_factor = <<3, 5>>,
                          !.merge_gap_samples = a.merge_gap_samples] :
        b \in Bumps, a \in DetectionArguments }
    \cup
    { [NoDetection EXCEPT !.rms_data = BurstPairSeries(b),
                          !.fs = a.fs, !.rate_threshold = a.rate_threshold,
                          !.min_duration_samples = a.min_duration_samples,
                          !.smoothing_window = a.smoothing_window,
                          !.hysteresis_factor = <<3, 5>>,
                          !.merge_gap_samples = a.merge_gap_samples] :
        b \in BurstPairs, a \in DefaultArguments }

DetectInit ==
    /\ InitProgram /\ device.nchannels = 72 /\ PIPELINES = AppPipelines
    /\ computation = NoComputation
    /\ detection \in DetectionInputs
    /\ NoUnits

Detect ==
    /\ ~detection.done
    /\ detection' = DetectContractions(detection)
    /\ UNCHANGED <<recvVars, ctlVars, cfgVars, calVars, tracks, trkVars, raceVars, computation, unitVars>>

DetectNext == Detect

DetectSpec == DetectInit /\ [][DetectNext]_vars

ComputeSpec == ComputeInit /\ [][ComputeNext]_vars

\* ------------------------------------------------------ pipeline registry
\* Calls made on the registry and its instances in one run.
MaxCalls == 4
\* Stages added to one instance.
MaxStages == 1

progVars == <<recvVars, ctlVars, cfgVars, calVars, tracks, trkVars, raceVars,
              computation, detection>>

\* get_pipeline with the test of line 29 left out: a new instance every call.
GetPipelineAlwaysNew(reg, name) ==
    LET new == Len(reg.instances) + 1 IN
    [pipelines |-> [reg.pipelines EXCEPT ![name] = new],
     instances |-> Append(reg.instances, NoStages),
     returned |-> new]

\* get_pipeline, lines 29-31: the registry after the call and the instance
\* returned.  ProcessingPipeline() of line 30 is a new object with stages = [].
GetPipeline(reg, name) ==
    IF reg.pipelines[name] = 0
    THEN LET new == Len(reg.instances) + 1 IN
         [pipelines |-> [reg.pipelines EXCEPT ![name] = new],
          instances |-> Append(reg.instances, NoStages),
          returned |-> new]
    ELSE [pipelines |-> reg.pipelines,
          instances |-> reg.instances,
          returned |-> reg.pipelines[name]]

\* A caller calls get_pipeline(name).
CallGetPipeline ==
    /\ Len(registry.calls) < MaxCalls
    /\ \E name \in RegistryNames :
          LET r == GetPipeline(registry, name) IN
          registry' = [pipelines |-> r.pipelines,
                       instances |-> r.instances,
                       calls |-> Append(registry.calls,
                                        [op |-> "get_pipeline", name |-> name,
                                         returned |-> r.returned,
                                         stages |-> r.instances[r.returned]])]
    /\ UNCHANGED <<progVars, command, window, controller>>

\* A caller calls add_stage (line 8) on an instance it was handed.
CallAddStage ==
    /\ Len(registry.calls) < MaxCalls
    /\ \E i \in 1..Len(registry.instances), func \in {"notch"} :
          /\ Len(registry.instances[i]) < MaxStages
          /\ registry' = [registry EXCEPT
                             !.instances[i] = Append(@, func),
                             !.calls = Append(@, [op |-> "add_stage", name |-> None,
                                                  returned |-> i,
                                                  stages |-> Append(registry.instances[i], func)])]
    /\ UNCHANGED <<progVars, command, window, controller>>

\* clear_pipelines, line 35.
CallClearPipelines ==
    /\ Len(registry.calls) < MaxCalls
    /\ registry' = [registry EXCEPT
                       !.pipelines = [n \in RegistryNames |-> 0],
                       !.calls = Append(@, [op |-> "clear_pipelines", name |-> None,
                                            returned |-> 0, stages |-> NoStages])]
    /\ UNCHANGED <<progVars, command, window, controller>>

RegistryNext ==
    \/ CallGetPipeline
    \/ CallAddStage
    \/ CallClearPipelines

RegistrySpec == InitApp /\ [][RegistryNext]_vars

\* --------------------------------------------------------- create_command
\* x << n of Python on non-negative integers.
ShiftLeft(x, n) == x * 2^n

\* get_num_channels, lines 421-431.
GetNumChannels(NCH, MODE) ==
    CASE NCH = 0 -> IF MODE = 1 THEN 12 ELSE 16
      [] NCH = 1 -> IF MODE = 1 THEN 16 ELSE 24
      [] NCH = 2 -> IF MODE = 1 THEN 24 ELSE 40
      [] NCH = 3 -> IF MODE = 1 THEN 40 ELSE 72
      [] OTHER   -> 72

\* get_sampling_frequency, lines 433-449.
GetSamplingFrequency(FSAMP, MODE) ==
    IF MODE = 3
    THEN CASE FSAMP = 0 -> 2000 [] FSAMP = 1 -> 4000 [] FSAMP = 2 -> 8000
           [] FSAMP = 3 -> 16000 [] OTHER -> 2000
    ELSE CASE FSAMP = 0 -> 500 [] FSAMP = 1 -> 1000 [] FSAMP = 2 -> 2000
           [] FSAMP = 3 -> 4000 [] OTHER -> 2000

\* Lines 455-464 with MODE shifted by 7 instead of 8.
CommandWordModeAtBit7(c) ==
    c.GO + ShiftLeft(c.REC, 1) + ShiftLeft(c.TRIG, 2) + ShiftLeft(c.EXTEN, 4)
    + ShiftLeft(c.HPF, 6) + ShiftLeft(c.HRES, 7) + ShiftLeft(c.MODE, 7)
    + ShiftLeft(c.NCH, 11) + ShiftLeft(c.FSAMP, 13)

\* Lines 455-464: the sum of the shifted fields.
CommandWord(c) ==
    c.GO + ShiftLeft(c.REC, 1) + ShiftLeft(c.TRIG, 2) + ShiftLeft(c.EXTEN, 4)
    + ShiftLeft(c.HPF, 6) + ShiftLeft(c.HRES, 7) + ShiftLeft(c.MODE, 8)
    + ShiftLeft(c.NCH, 11) + ShiftLeft(c.FSAMP, 13)

\* Every combination of in-range field values.
CommandInputs ==
    { [NoCommand EXCEPT !.FSAMP = fsamp, !.NCH = nch, !.MODE = mode, !.HRES = hres,
                        !.HPF = hpf, !.EXTEN = exten, !.TRIG = trig, !.REC = rec,
                        !.GO = go] :
        fsamp \in 0..3, nch \in 0..3, mode \in 0..7, hres \in 0..1, hpf \in 0..1,
        exten \in 0..3, trig \in 0..3, rec \in 0..1, go \in 0..1 }

CommandInit ==
    /\ InitProgram /\ device.nchannels = 72 /\ PIPELINES = AppPipelines
    /\ computation = NoComputation
    /\ detection = NoDetection
    /\ registry = NoRegistry
    /\ command \in CommandInputs
    /\ window = NoWindow
    /\ controller = NoController

\* create_command, lines 451-468.
CreateCommand ==
    /\ ~command.done
    /\ command' = [command EXCEPT
                      !.done = TRUE,
                      !.nchannels = GetNumChannels(command.NCH, command.MODE),
                      !.frequency = GetSamplingFrequency(command.FSAMP, command.MODE),
                      !.Command = CommandWord(command)]
    /\ UNCHANGED <<progVars, registry, window, controller>>

CommandNext == CreateCommand

CommandSpec == CommandInit /\ [][CommandNext]_vars

\* ------------------------------------------- the controller on its own
\* Calls made on the controller in one run.
MaxControllerCalls == 3

\* start_streaming, lines 20-53.  start() of line 37 raises RuntimeError
\* when the thread cannot be started.
StartStreamingOf(c) ==
    LET set == [c EXCEPT !.is_streaming = TRUE, !.is_paused = FALSE,
                         !.method = "start_streaming", !.calls = @ + 1]
        started == [set EXCEPT !.timer_active = TRUE,
                               !.status_update = Append(@, "Streaming..."),
                               !.returned = "True"]
    IN  IF c.receiver_thread # None
        THEN IF c.thread = "alive"
             THEN [started EXCEPT !.running = TRUE]
             ELSE IF c.restartable
             THEN [started EXCEPT !.running = TRUE, !.thread = "alive"]
             ELSE [set EXCEPT !.running = TRUE,
                              !.status_update =
                                  Append(@, "ERROR: Cannot restart. Please restart the application."),
                              !.returned = "False"]
        ELSE [set EXCEPT !.status_update = Append(@, "ERROR: Receiver not initialized"),
                         !.returned = "False"]

\* stop_streaming, lines 55-71.
StopStreamingOf(c) ==
    [c EXCEPT !.is_streaming = FALSE, !.is_paused = TRUE, !.timer_active = FALSE,
              !.running = IF c.receiver_thread # None THEN FALSE ELSE @,
              !.status_update = Append(@, "Stream stopped"),
              !.method = "stop_streaming", !.returned = "True", !.calls = @ + 1]

\* toggle_streaming, lines 73-78.
ToggleStreamingOf(c) ==
    IF c.is_streaming THEN StopStreamingOf(c) ELSE StartStreamingOf(c)

\* pause_streaming, lines 80-84.
PauseStreamingOf(c) ==
    [c EXCEPT !.is_paused = TRUE, !.timer_active = FALSE,
              !.method = "pause_streaming", !.returned = "True", !.calls = @ + 1]

\* resume_streaming, lines 86-90.
ResumeStreamingOf(c) ==
    [c EXCEPT !.is_paused = FALSE, !.timer_active = TRUE,
              !.method = "resume_streaming", !.returned = "True", !.calls = @ + 1]

\* A controller constructed with no receiver, or with a receiver whose
\* thread can or cannot be started.
ControllerInputs ==
    { [NoController EXCEPT !.receiver_thread = r, !.restartable = b] :
        r \in {None, "receiver"}, b \in BOOLEAN }

ControllerInit ==
    /\ InitProgram /\ device.nchannels = 72 /\ PIPELINES = AppPipelines
    /\ computation = NoComputation
    /\ detection = NoDetection
    /\ registry = NoRegistry
    /\ command = NoCommand
    /\ window = NoWindow
    /\ controller \in ControllerInputs

CallStartStreaming ==
    /\ controller.calls < MaxControllerCalls
    /\ controller' = StartStreamingOf(controller)
    /\ UNCHANGED <<progVars, registry, command, window>>

CallStopStreaming ==
    /\ controller.calls < MaxControllerCalls
    /\ controller' = StopStreamingOf(controller)
    /\ UNCHANGED <<progVars, registry, command, window>>

CallToggleStreaming ==
    /\ controller.calls < MaxControllerCalls
    /\ controller' = ToggleStreamingOf(controller)
    /\ UNCHANGED <<progVars, registry, command, window>>

CallPauseStreaming ==
    /\ controller.calls < MaxControllerCalls
    /\ controller' = PauseStreamingOf(controller)
    /\ UNCHANGED <<progVars, registry, command, window>>

CallResumeStreaming ==
    /\ controller.calls < MaxControllerCalls
    /\ controller' = ResumeStreamingOf(controller)
    /\ UNCHANGED <<progVars, registry, command, window>>

\* run() of the receiver returns: the thread is no longer running.
ThreadFinishes ==
    /\ controller.receiver_thread # None
    /\ controller.thread = "alive"
    /\ controller' = [controller EXCEPT !.thread = "finished"]
    /\ UNCHANGED <<progVars, registry, command, window>>

ControllerNext ==
    \/ CallStartStreaming
    \/ CallStopStreaming
    \/ CallToggleStreaming
    \/ CallPauseStreaming
    \/ CallResumeStreaming
    \/ ThreadFinishes

ControllerSpec == ControllerInit /\ [][ControllerNext]_vars

\* ------------------------------------------- the button handlers of main.py
\* Clicks handled in one run.
MaxClicks == 4

\* The signals DataReceiverThread declares, lines 9-12.
ReceiverSignals == {"data_received", "stage_output", "status_update"}

\* The signals of the receiver initialize_receiver connects, in the order of
\* lines 489-491.
ConnectedSignals == <<"status_update", "error_signal", "stage_output">>

\* initialize_receiver, lines 481-499, on a window with its socket set: the
\* window it leaves and whether it raised.  Looking up a signal the receiver
\* does not declare raises AttributeError and the statements after it,
\* line 497 among them, do not run.
InitializeReceiver(w) ==
    LET missing == {i \in 1..Len(ConnectedSignals) :
                       ConnectedSignals[i] \notin ReceiverSignals}
        created == [w EXCEPT !.receiver_thread = "receiver"]
    IN  IF missing = {}
        THEN [window |-> [created EXCEPT
                             !.connected = {ConnectedSignals[i] : i \in 1..Len(ConnectedSignals)},
                             !.streaming_controller = "controller"],
              raised |-> FALSE, message |-> None]
        ELSE LET first == CHOOSE i \in missing : \A j \in missing : i <= j IN
             [window |-> [created EXCEPT
                             !.connected = {ConnectedSignals[i] : i \in 1..(first - 1)}],
              raised |-> TRUE,
              message |-> "'DataReceiverThread' object has no attribute 'error_signal'"]

\* What the connection attempt of a handler can come to: the device connects,
\* or start_server or send_command raises.
ConnectOutcomes == {"connected", "refused"}

\* The part the three handlers share (main.py lines 81-101, 113-133, 146-166):
\* with no receiver thread yet, connect and initialize the receiver.
ConnectAndInitialize(w, outcome) ==
    IF w.receiver_thread # None
    THEN [window |-> w, raised |-> FALSE, message |-> None]
    ELSE IF outcome = "refused"
    THEN [window |-> w, raised |-> TRUE, message |-> "connection refused"]
    ELSE InitializeReceiver([w EXCEPT !.client_socket = "socket"])

\* The handler's except clause (lines 106-107): the message box.
AfterHandler(r, name) ==
    [r.window EXCEPT !.critical = IF r.raised THEN Append(@, r.message) ELSE @,
                     !.handler = name,
                     !.clicks = @ + 1]

\* handle_stream_toggle, main.py lines 78-107, with toggle_streaming of the
\* window (main_window.py lines 388-401).
HandleStreamToggle ==
    /\ window.clicks < MaxClicks
    /\ ~dialog.exists /\ ~window_closed
    /\ \E outcome \in ConnectOutcomes :
          LET r == ConnectAndInitialize(window, outcome)
              after == AfterHandler(r, "handle_stream_toggle")
          IN  IF r.raised
              THEN /\ window' = after
                   /\ UNCHANGED <<is_streaming, is_paused, timer_active, running, pc,
                                  first_packet, packet_bytes, data>>
              ELSE IF r.window.streaming_controller = None
              THEN /\ window' = [after EXCEPT !.status =
                          Append(@, "ERROR: Streaming controller not initialized. This should not happen.")]
                   /\ UNCHANGED <<is_streaming, is_paused, timer_active, running, pc,
                                  first_packet, packet_bytes, data>>
              ELSE /\ window' = [after EXCEPT !.button =
                          IF is_streaming THEN "Start Live Stream" ELSE "Stop Live Stream"]
                   /\ IF is_streaming THEN StopStreaming ELSE StartStreaming
    /\ UNCHANGED <<sock, pos, packet_count, frames, events, data_received, status_updates, io,
                   tracks, cfgVars, computation, detection, registry, command, controller,
                   stop_requested, window_closed, calVars, trkVars, raceVars>>

\* handle_calibration, main.py lines 142-171, up to the dialog's exec_().
HandleCalibration ==
    /\ window.clicks < MaxClicks
    /\ ~dialog.exists /\ ~window_closed
    /\ \E outcome \in ConnectOutcomes :
          LET r == ConnectAndInitialize(window, outcome) IN
          /\ window' = AfterHandler(r, "handle_calibration")
          /\ dialog' = IF r.raised THEN dialog ELSE NewDialog
    /\ UNCHANGED <<is_calibrated, baseline_rms, threshold, mvc_rms, recvVars, ctlVars, cfgVars,
                   computation, detection, registry, command, controller, tracks, trkVars,
                   raceVars>>

StartupNext ==
    \/ HandleStreamToggle
    \/ HandleCalibration
    \/ CancelCalibration

StartupSpec == Init /\ [][StartupNext]_vars

\* ======================================================================
\* Properties of the receiver
\* ======================================================================
SelectStage(stage) == SelectSeq(events, LAMBDA e : e.stage = stage)
FrameEvents(n) == SelectSeq(events, LAMBDA e : e.frame = n)
Cols(m) == m.len \div (2 * device.nchannels)

\* C1: for any split of the stream into reads, the frames decoded are the
\* consecutive expected_bytes-long pieces of the stream, in order: frame i is
\* bytes [(i-1)*expected_bytes, i*expected_bytes); whenever the reads so far
\* add up to whole frames and the worker is back at its read, it has decoded
\* total/expected_bytes frames; and no read of stream data ends the worker.
C1_FramesIndependentOfChunking ==
    LET E == ExpectedBytes(device)
        raws == SelectStage("raw")
    IN  /\ \A i \in 1..Len(raws) :
              raws[i].value.src = (i - 1) * E /\ raws[i].value.len = E
        /\ (pc = "recv" /\ pos % E = 0) => Len(raws) = pos \div E
        /\ pc = "exited" => io \in {"eof", "reset"}

\* C2: a raising pipeline stage never aborts the frame (every decoded frame is
\* completed and counted, and the worker is never ended by it), and the branch
\* values follow the fallback chain: filtered = filtered-pipeline(raw) or raw,
\* rectified = rectified-pipeline(filtered) or filtered,
\* final = final-pipeline(raw) or rectified.
C2_FallbackChain ==
    /\ Len(frames) = packet_count
    /\ \A n \in 1..Len(frames) :
          LET f == frames[n] IN
          /\ f.filtered = IF "filtered" \in f.raised THEN f.raw
                          ELSE RunStages(PIPELINES["filtered"], f.raw)
          /\ f.rectified = IF "rectified" \in f.raised THEN f.filtered
                           ELSE RunStages(PIPELINES["rectified"], f.filtered)
          /\ f.final = IF "final" \in f.raised THEN f.rectified
                       ELSE RunStages(PIPELINES["final"], f.raw)
          /\ \E i \in 1..Len(events) :
                events[i].frame = n - 1 /\ events[i].stage = "final"
                    /\ events[i].value = f.final
    /\ (pc = "exited" /\ frames # <<>>) =>
          (io \in {"eof", "reset"} \/ ~Decodable([len |-> packet_bytes], device.nchannels))

\* C2 witness: a frame whose final pipeline raised while the filtered and
\* rectified pipelines ran, after which the worker is back at its read.
C2_Witness ==
    /\ pc = "recv"
    /\ \E n \in 1..Len(frames) :
          /\ frames[n].raised = {"final"}
          /\ frames[n].final = frames[n].rectified
          /\ frames[n].final # frames[n].raw

\* C3: every decoded frame publishes exactly the four events raw, filtered,
\* rectified, final, in that order, each carrying the branch value (computed
\* or fallback), and frames are published in arrival order.
C3_FourEventsPerFrame ==
    /\ \A n \in 1..Len(frames) :
          FrameEvents(n - 1) =
              << [frame |-> n - 1, stage |-> "raw", value |-> frames[n].raw],
                 [frame |-> n - 1, stage |-> "filtered", value |-> frames[n].filtered],
                 [frame |-> n - 1, stage |-> "rectified", value |-> frames[n].rectified],
                 [frame |-> n - 1, stage |-> "final", value |-> frames[n].final] >>
    /\ \A i, j \in 1..Len(events) : i < j => events[i].frame <= events[j].frame

\* C4: a read that returned part of a frame is never discarded: from the
\* completion loop the worker only goes on completing the frame or on to
\* decoding it, as long as the socket stays open.
C4_PartialFrameRetained ==
    [][(RecvRest /\ sock' = "open") => pc' \in {"retry", "process"}]_vars

\* C5: after stop is requested on the receiver or the window is closed, the
\* worker eventually leaves its receive loop.
C5_StopLeadsToExit ==
    (stop_requested \/ window_closed) ~> (pc \in {"exited", "unstarted"})

\* C7: a frame whose byte count does not fit the frame size never ends the
\* worker: after every packet handed to decoding the worker is back at its read.
C7_MalformedFrameNotFatal ==
    [][ProcessPacket => pc' = "recv"]_vars

\* C8: when a read returned zero bytes and the worker left its loop, a fatal
\* status or error event has been published.
FatalReported == \E i \in 1..Len(status_updates) : status_updates[i] # "Data rate"

C8_PeerCloseReported ==
    (io = "eof" /\ pc = "exited") => FatalReported

\* C9: a read timeout never ends the loop, streaming or paused: the worker is
\* back at its read on the same open socket, with the detected packet size kept.
C9_TimeoutKeepsLoop ==
    [][(Worker /\ TimedOut(io') /\ io' # io) =>
          (pc' = "recv" /\ sock' = "open" /\ UNCHANGED <<sock, packet_bytes, first_packet>>)]_vars

\* C9 witness: a timeout while streaming, after a frame has been decoded.
C9_Witness ==
    TimedOut(io) /\ running /\ pc = "recv" /\ packet_count >= 1

\* C10: the running offsets of the tracks cut rows 0..nchannels-1 into
\* disjoint consecutive ranges that cover them; every matrix fed while
\* streaming is the final branch value of its frame; and each track holds, as
\* its most recent columns, the columns of the fed matrices cut at the
\* track's own row range [offset, offset + num_channels).
TrackOffsets ==
    LET RECURSIVE Sum(_)
        Sum(u) == IF u = 0 THEN 0 ELSE Sum(u - 1) + tracks[u].num_channels
    IN  [t \in 1..(Len(tracks) + 1) |-> Sum(t - 1)]

\* The columns of the matrices in ms, in order, each as <<matrix, column>>.
RECURSIVE ColumnsOf(_)
ColumnsOf(ms) ==
    IF ms = <<>> THEN <<>>
    ELSE [j \in 1..Cols(Head(ms)) |-> <<Head(ms), j>>] \o ColumnsOf(Tail(ms))

C10_TracksPartitionFinal ==
    LET off == TrackOffsets
        last == Len(tracks)
        finals == {frames[n].final : n \in 1..Len(frames)}
        fedCols == ColumnsOf(data_received)
    IN  \* ranges [off[t], off[t] + num_channels) are non-empty, pairwise disjoint,
        \* start at row 0 and end at row nchannels - 1 without a gap
        /\ off[1] = 0
        /\ off[last] + tracks[last].num_channels = device.nchannels
        /\ \A t \in 1..last : tracks[t].num_channels >= 1
        /\ \A t \in 1..(last - 1) : off[t] + tracks[t].num_channels = off[t + 1]
        /\ \A t, u \in 1..last : t < u => off[t] + tracks[t].num_channels <= off[u]
        /\ \A t \in 1..Len(tracks) :
              /\ tracks[t].idx = off[t]
              /\ LET cap == Len(tracks[t].buffer) IN
                 \A k \in 1..Min(cap, Len(fedCols)) :
                    LET cell == tracks[t].buffer[((tracks[t].buffer_index - k) % cap) + 1]
                        fedCol == fedCols[Len(fedCols) - k + 1]
                    IN  /\ cell.m = fedCol[1]
                        /\ cell.col = fedCol[2]
                        /\ cell.lo = off[t]
                        /\ cell.hi = off[t] + tracks[t].num_channels
        /\ \A i \in 1..Len(data_received) : data_received[i] \in finals

\* C10 witness: two frames have been fed while streaming, the second one with
\* the final pipeline's own output.
C10_Witness ==
    /\ Len(data_received) >= 2
    /\ running
    /\ frames[Len(frames)].raised = {}
    /\ tracks[Len(tracks)].buffer_index > 0

\* ======================================================================
\* Properties of the calibration dialog
\* ======================================================================
\* C6: once the user has cancelled the dialog, its countdown is stopped, it
\* has emitted no calibration_complete, and the window's is_calibrated,
\* baseline, threshold and mvc are what they were before the dialog opened.
C6_CancelDiscardsSession ==
    dialog.cancelled =>
        /\ ~dialog.countdown_active
        /\ dialog.emitted = <<>>
        /\ ~is_calibrated
        /\ baseline_rms = NoArray /\ threshold = NoArray /\ mvc_rms = NoArray

\* ======================================================================
\* Properties of Track.feed and of the resize
\* ======================================================================
\* The k-th most recent column read back from the cursor, k = 0 the newest.
Recent(tr, k) == tr.buffer[((tr.buffer_index - 1 - k) % Len(tr.buffer)) + 1]

\* Reading back from the cursor gives the n most recent samples fed.
Chronological(tr, samples, n) ==
    \A k \in 0..(Min(n, Len(samples)) - 1) : Recent(tr, k) = samples[Len(samples) - k]

\* C11: a feed of at most capacity samples on a track that was only ever fed
\* sets the cursor to packet_size - (capacity - cursor) when cursor +
\* packet_size > capacity and to (cursor + packet_size) mod capacity
\* otherwise, and leaves 0 <= cursor < capacity with the k-th most recent
\* sample in column (cursor - 1 - k) mod capacity for k < min(capacity, fed).
C11_FeedKeepsRecentSamples ==
    [][(TrackFeed /\ resizes = 0) =>
          LET cap == Len(track.buffer)
              cursor == track.buffer_index
              packet_size == Len(samples_fed') - Len(samples_fed)
          IN  /\ track'.buffer_index =
                    IF cursor + packet_size > cap THEN packet_size - (cap - cursor)
                    ELSE (cursor + packet_size) % cap
              /\ 0 <= track'.buffer_index /\ track'.buffer_index < cap
              /\ Len(track'.buffer) = cap
              /\ Chronological(track', samples_fed', cap)]_vars

\* C11 witness: more samples than the capacity have been fed, the last feed
\* wrapped, no resize.
C11_Witness ==
    /\ resizes = 0
    /\ Len(samples_fed) > Len(track.buffer)
    /\ track.buffer_index > 0
    /\ Recent(track, 0) = Len(samples_fed)

\* C12: a resize of a track that holds its most recent samples in order keeps
\* the most recent min(old_capacity, new_capacity) of them, in order, read
\* back from the new cursor.
C12_ResizeKeepsRecentSamples ==
    [][(TrackChangePlotTime /\ Chronological(track, samples_fed, Len(track.buffer))) =>
          Chronological(track', samples_fed, Min(Len(track.buffer), Len(track'.buffer)))]_vars

\* C13: after a resize the cursor is min(old_capacity, new_capacity) mod
\* new_capacity.
C13_ResizeCursor ==
    [][TrackChangePlotTime =>
          track'.buffer_index =
              Min(Len(track.buffer), Len(track'.buffer)) % Len(track'.buffer)]_vars

C15_ResizeNeverBreaksFeed ==
    /\ feeding.pc # "raised"
    /\ feeding.pc # "idle" => track.buffer_index <= Len(track.buffer)

\* C16: the phase of the dialog only moves None -> rest (Start, counter set
\* to rest_duration and ticked once) -> contraction -> None (failed) or
\* accepted (done); inside a phase a tick takes one off the counter, and the
\* phase is left by exactly the tick that makes the counter negative.
C16_PhaseOrder ==
    [][dialog' # dialog =>
          LET p == dialog.current_phase
              q == dialog'.current_phase
              t == dialog.remaining_time
              u == dialog'.remaining_time
              done == dialog.result = "accepted"
              done_after == dialog'.result = "accepted"
          IN  CASE done ->
                     dialog' = [dialog EXCEPT !.last_event = dialog'.last_event]
                [] p = None /\ q = None ->
                     dialog'.emitted = dialog.emitted /\ u = t
                [] p = None /\ q = "rest" ->
                     dialog.start_enabled /\ u = REST_DURATION - 1
                [] p = "rest" /\ q = "rest" ->
                     u = t \/ (u = t - 1 /\ u >= 0)
                [] p = "rest" /\ q = "contraction" ->
                     t - 1 < 0 /\ u = CONTRACTION_DURATION - 1
                [] p = "contraction" /\ q = "contraction" ->
                     \/ u = t /\ ~done_after
                     \/ u = t - 1 /\ u >= 0 /\ ~done_after
                     \/ t - 1 < 0 /\ u = t - 1 /\ done_after
                [] p = "contraction" /\ q = None ->
                     t - 1 < 0 /\ dialog'.emitted = dialog.emitted
                [] OTHER -> FALSE]_vars

\* C16 witness: a run went through both phases and ended with a result.
C16_Witness ==
    /\ dialog.result = "accepted"
    /\ ~dialog.cancelled
    /\ Len(dialog.emitted) = 1
    /\ dialog.remaining_time = -1

\* The tick that ends the contraction countdown with an empty list.
FailingTick ==
    /\ CountdownTimeout
    /\ dialog.current_phase = "contraction"
    /\ dialog.remaining_time - 1 < 0
    /\ \/ dialog.rest_rms_values = <<>>
       \/ dialog.contraction_rms_values = <<>>

\* C17 (as the code has it): when a list is empty at the end of the
\* contraction countdown nothing is emitted and the dialog is idle again
\* (phase None, countdown stopped, Start enabled) with the vectors still in
\* its lists; Start empties both lists and begins at rest; and a result is
\* only emitted at the end of a contraction countdown with both lists filled.
C17_FailedRunNeedsFreshStart ==
    [][/\ FailingTick =>
             /\ dialog'.emitted = dialog.emitted
             /\ dialog'.current_phase = None
             /\ ~dialog'.countdown_active
             /\ dialog'.start_enabled
             /\ dialog'.result = dialog.result
             /\ dialog'.rest_rms_values = dialog.rest_rms_values
             /\ dialog'.contraction_rms_values = dialog.contraction_rms_values
             /\ UNCHANGED <<is_calibrated, baseline_rms, threshold, mvc_rms>>
       /\ StartCalibration =>
             /\ dialog'.rest_rms_values = <<>>
             /\ dialog'.contraction_rms_values = <<>>
             /\ dialog'.current_phase = "rest"
       /\ dialog'.emitted # dialog.emitted =>
             /\ dialog.current_phase = "contraction"
             /\ dialog.rest_rms_values # <<>>
             /\ dialog.contraction_rms_values # <<>>]_vars

\* C17 witness: a run has failed with rest vectors collected and none of the
\* contraction phase; the dialog is idle and still holds the rest vectors.
C17_Witness ==
    /\ dialog.shown
    /\ dialog.current_phase = None
    /\ dialog.start_enabled
    /\ dialog.subscription_connected
    /\ dialog.rest_rms_values # <<>>
    /\ dialog.contraction_rms_values = <<>>
    /\ dialog.emitted = <<>>

\* C17 as stated: an idle dialog (before Start or after a failed run) holds no
\* collected vectors.
C17_FailedRunDiscardsVectors ==
    (dialog.exists /\ dialog.current_phase = None) =>
        /\ dialog.rest_rms_values = <<>>
        /\ dialog.contraction_rms_values = <<>>

\* The phase of the session as the claim names it.
SessionPhase(d) ==
    IF d.result = "accepted" THEN "done"
    ELSE IF d.current_phase = None THEN "idle"
    ELSE d.current_phase

\* A step of DeliverStageOutput: the only action that changes the dialog and
\* leaves every field but the two lists and last_event.
DeliveryStep ==
    /\ dialog' # dialog
    /\ dialog' = [dialog EXCEPT !.last_event = dialog'.last_event,
                                !.rest_rms_values = dialog'.rest_rms_values,
                                !.contraction_rms_values = dialog'.contraction_rms_values]

C19_SingleResult ==
    /\ Len(dialog.emitted) <= 1
    /\ dialog.emitted # <<>> =>
          /\ Len(dialog.rest_rms_values) >= 1
          /\ Len(dialog.contraction_rms_values) >= 1
          /\ LET r == dialog.emitted[1]
                 n == Len(dialog.rest_rms_values[1])
             IN  /\ n = device.nchannels
                 /\ \A i \in 1..Len(dialog.contraction_rms_values) :
                       Len(dialog.contraction_rms_values[i]) = n
                 /\ Len(r.baseline_rms) = n
                 /\ Len(r.threshold) = n
                 /\ Len(r.mvc_rms) = n
                 /\ is_calibrated /\ Len(mvc_rms) = n

\* C19 witness: the dialog has emitted its result and was accepted.
C19_Witness ==
    /\ dialog.emitted # <<>>
    /\ dialog.result = "accepted"
    /\ ~dialog.shown
    /\ ~dialog.subscription_connected

\* C20: constant rest vectors r give baseline r and a threshold whose mean is r
\* and whose variance is 0, so that mean + k * sqrt(variance) is r for every
\* multiplier k; 5 rest vectors of 10s and 5 contraction vectors of 100s over
\* 64 channels give baseline 10, threshold 10 and mvc 100 on every channel,
\* the mvc array being the one the percentile loop built, unrepaired.
ConstantRest(rest) == \A i \in 1..Len(rest) : rest[i] = rest[1]

E2EB ==
    /\ computation.rest_rms_values = ConstantVectors(5, 64, 10)
    /\ computation.contraction_rms_values = ConstantVectors(5, 64, 100)

C20_ConstantRest ==
    computation.done =>
        LET rest == computation.rest_rms_values
            res == computation.result
        IN  /\ ConstantRest(rest) =>
                /\ res.baseline_rms = [c \in 1..Len(rest[1]) |-> RInt(rest[1][c])]
                /\ Len(res.threshold) = Len(rest[1])
                /\ \A c \in 1..Len(rest[1]) :
                      /\ res.threshold[c].mean = RInt(rest[1][c])
                      /\ res.threshold[c].var = RInt(0)
            /\ E2EB =>
                /\ res.baseline_rms = [c \in 1..64 |-> RInt(10)]
                /\ \A c \in 1..64 : /\ res.threshold[c].mean = RInt(10)
                                     /\ res.threshold[c].var = RInt(0)
                /\ res.mvc_rms = [c \in 1..64 |-> RInt(100)]
                /\ res.mvc_rms = MvcRms(computation.contraction_rms_values)

C20_Witness ==
    /\ computation.done
    /\ E2EB
    /\ computation.result.mvc_rms = [c \in 1..64 |-> RInt(100)]

\* The mvc array before the repair pass (line 309), and the grid cells around
\* a cell, as 1-based channel positions.
PreRepairMvc == computation.mvc_before_repair

TenthOfMedian == RDivInt(MedianMvc(PreRepairMvc), 10)

FullySaturated(c) ==
    \A i \in 1..Len(computation.contraction_rms_values) :
        ~NonSaturated(computation.contraction_rms_values[i][c])

WindowAround(row, col) ==
    LET cells == {ChannelIdx(r, k) : r \in (row - 1)..(row + 1) \cap 0..7,
                                     k \in (col - 1)..(col + 1) \cap 0..7}
                   \ {ChannelIdx(row, col)}
    IN  SelectSeq([n \in 1..64 |-> n], LAMBDA n : n \in cells)

\* C21: a channel of the grid whose mvc before the repair is at least a tenth
\* of the median of the grid keeps that mvc through the repair pass.
C21_RepairLeavesGoodChannels ==
    computation.done =>
        LET tenth == TenthOfMedian IN
        \A c \in 1..64 :
            ~RLess(PreRepairMvc[c], tenth) =>
                computation.result.mvc_rms[c] = PreRepairMvc[c]

\* A repair happened next to a channel that sits exactly on the threshold.
C21_Witness ==
    /\ computation.done
    /\ PreRepairMvc[21] = TenthOfMedian
    /\ computation.result.mvc_rms[21] = PreRepairMvc[21]
    /\ \E c \in 1..64 : computation.result.mvc_rms[c] # PreRepairMvc[c]

\* C22: no channel of the grid that was saturated in every contraction vector
\* still holds the sentinel 0 in the emitted mvc.
C22_SentinelReplaced ==
    computation.done =>
        \A c \in 1..64 : FullySaturated(c) => computation.result.mvc_rms[c] # RInt(0)

\* C23: a cell below a tenth of the median whose in-grid neighbours of the
\* 3x3 window are all at or above it ends with the mean of those neighbours;
\* channel index 5 saturated among channels at 90 ends at 90.
C23_MeanOfNeighbours ==
    computation.done =>
        /\ LET tenth == TenthOfMedian IN
           \A row \in 0..7, col \in 0..7 :
              LET idx == ChannelIdx(row, col)
                  nb == WindowAround(row, col)
              IN  (/\ RLess(PreRepairMvc[idx], tenth)
                   /\ \A i \in 1..Len(nb) : ~RLess(PreRepairMvc[nb[i]], tenth))
                  => computation.result.mvc_rms[idx] =
                         RDivInt(RSum([i \in 1..Len(nb) |-> PreRepairMvc[nb[i]]]), Len(nb))
        /\ (\A i \in 1..Len(computation.contraction_rms_values) : \A c \in 1..64 :
                computation.contraction_rms_values[i][c] = IF c = 6 THEN 32767 ELSE 90)
           => computation.result.mvc_rms[6] = RInt(90)

\* Channel index 5 saturated, every other channel at 90, repaired to 90.
C23_Witness ==
    /\ computation.done
    /\ \A i \in 1..Len(computation.contraction_rms_values) : \A c \in 1..64 :
          computation.contraction_rms_values[i][c] = IF c = 6 THEN 32767 ELSE 90
    /\ PreRepairMvc[6] = RInt(0)
    /\ computation.result.mvc_rms[6] = RInt(90)

\* C24: the list before the merge pass and the list returned are in
\* chronological order without overlap: every triple has start <= end and
\* starts strictly after the end of the triple before it.
OrderedDisjoint(cs) ==
    /\ \A k \in 1..Len(cs) : cs[k].start_idx <= cs[k].end_idx
    /\ \A k \in 2..Len(cs) : cs[k].start_idx > cs[k - 1].end_idx

C24_OrderedNonOverlapping ==
    detection.done => OrderedDisjoint(detection.scanned) /\ OrderedDisjoint(detection.contractions)

\* Two contractions scanned and returned apart.
C24_Witness ==
    /\ detection.done
    /\ Len(detection.scanned) = 2
    /\ Len(detection.contractions) = 2
    /\ detection.contractions[1].start_idx < detection.contractions[1].end_idx

\* C25: every contraction the forward scan accepted, the one closed at the
\* final index included, has end index - start index >= min_duration_samples.
C25_MinimumDuration ==
    detection.done =>
        \A k \in 1..Len(detection.scanned) :
            detection.scanned[k].end_idx - detection.scanned[k].start_idx
                >= detection.min_duration_samples

\* C26: a contraction starts only more than refractory_period samples after
\* the index at which the most recent contraction ended, kept or rejected.
C26_RefractoryAfterEveryEnd ==
    detection.done =>
        \A k \in 1..Len(detection.starts) : \A j \in 1..Len(detection.ends) :
            detection.ends[j] < detection.starts[k] =>
                detection.starts[k] - detection.ends[j]
                    > RefractoryPeriod(detection.min_duration_samples)

\* C27: two accepted contractions at most merge_gap_samples apart are returned
\* as one triple from the first start to the second end with the maximum of
\* the series over it as peak (the slice rms_data[start:end] of every peak);
\* two that are further apart are returned as they are.
C27_MergeByGap ==
    (detection.done /\ Len(detection.scanned) = 2) =>
        LET a == detection.scanned[1]
            b == detection.scanned[2]
        IN  IF b.start_idx - a.end_idx <= MergeGap(detection)
            THEN detection.contractions =
                    << [start_idx |-> a.start_idx, end_idx |-> b.end_idx,
                        peak |-> SliceMax(detection.rms_data, a.start_idx, b.end_idx)] >>
            ELSE detection.contractions = << a, b >>

\* C28: a falling sample that sets offset_mask has a slope at least as steep
\* as a rising sample needs to set onset_mask (hysteresis_factor < 1,
\* rate_threshold > 0): mirrored, it would set onset_mask.
C28_OffsetHarderThanOnset ==
    detection.done =>
        \A k \in 1..Len(detection.rms_data) :
            detection.offset_mask[k] =>
                -detection.drms_dt_smooth[k] * detection.fs
                    > 2 * detection.smoothing_window * detection.rate_threshold

\* C29: a single rise, plateau and fall with rate_threshold under the slope of
\* the rise and a plateau of at least min_duration_samples gives exactly one
\* contraction, which starts within the rise, ends within the fall and lasts
\* at least min_duration_samples.
C29_OneContractionPerBump ==
    LET b == detection.bump
        rise_from == b.lead - 1
        fall_from == b.lead + b.rise + b.plateau - 1
    IN  (/\ detection.done
         /\ b.rise > 0
         /\ detection.rate_threshold < b.fall * detection.fs
         /\ b.plateau >= detection.min_duration_samples)
        => /\ Len(detection.contractions) = 1
           /\ detection.contractions[1].start_idx \in rise_from..(rise_from + b.rise)
           /\ detection.contractions[1].end_idx \in fall_from..(fall_from + b.fall)
           /\ detection.contractions[1].end_idx - detection.contractions[1].start_idx
                  >= detection.min_duration_samples

\* C30: ProcessingPipeline.run applies the stages in the order they were
\* added, each to the output of the one before: the matrix a pipeline returns
\* carries the input's stages followed by the pipeline's, a pipeline without
\* stages returns its input, and a pipeline of two stages f, g returns g(f(x)).
RanInOrder(stages, x, y) ==
    /\ y = [x EXCEPT !.ops = x.ops \o stages]
    /\ stages = NoStages => y = x
    /\ Len(stages) = 2 => y = ApplyStage(stages[2], ApplyStage(stages[1], x))

C30_StagesInOrder ==
    \A n \in 1..Len(frames) :
        LET f == frames[n] IN
        /\ "filtered" \notin f.raised => RanInOrder(PIPELINES["filtered"], f.raw, f.filtered)
        /\ "rectified" \notin f.raised =>
               RanInOrder(PIPELINES["rectified"], f.filtered, f.rectified)
        /\ "final" \notin f.raised => RanInOrder(PIPELINES["final"], f.raw, f.final)

\* A frame through the two-stage filtered pipeline and the empty final one.
C30_Witness ==
    \E n \in 1..Len(frames) :
        /\ frames[n].raised = {}
        /\ PIPELINES["final"] = NoStages
        /\ frames[n].final = frames[n].raw
        /\ frames[n].filtered.ops = <<"butter_bandpass", "notch">>
        /\ frames[n].rectified.ops = <<"butter_bandpass", "notch", "rectify">>

\* ======================================================================
\* Properties of the pipeline registry

\* The get_pipeline calls of the history.
GetCalls == {i \in 1..Len(registry.calls) : registry.calls[i].op = "get_pipeline"}

\* No clear_pipelines call among calls i..j of the history.
NoClearBetween(i, j) == \A k \in i..j : registry.calls[k].op # "clear_pipelines"

\* The earlier get_pipeline calls with the name of call i and no clear since.
EarlierSameName(i) ==
    {j \in GetCalls : /\ j < i
                      /\ registry.calls[j].name = registry.calls[i].name
                      /\ NoClearBetween(j, i)}

\* C31: get_pipeline(name) returns the instance stored for name if there is
\* one, and otherwise creates, stores and returns a new pipeline with no
\* stages: a call that follows a call with the same name with no clear in
\* between returns the same instance as that call; any other call returns an
\* instance no earlier call returned, with no stages; the instance returned
\* stays stored until the next clear; calls with different names return
\* different instances.
C31_GetPipelineSharesByName ==
    LET c == registry.calls IN
    /\ \A i \in GetCalls :
          IF EarlierSameName(i) # {}
          THEN \A j \in EarlierSameName(i) : c[j].returned = c[i].returned
          ELSE /\ c[i].stages = NoStages
               /\ \A j \in GetCalls : j < i => c[j].returned # c[i].returned
    /\ \A i \in GetCalls :
          NoClearBetween(i, Len(c)) => registry.pipelines[c[i].name] = c[i].returned
    /\ \A i, j \in GetCalls : c[i].name # c[j].name => c[i].returned # c[j].returned

\* Two calls with one name, a stage added in between, returned the same
\* instance, the second time with its stage, and a call with another name
\* returned another instance.
C31_Witness ==
    \E i, j, k \in GetCalls :
        /\ i < j
        /\ registry.calls[i].name = registry.calls[j].name
        /\ NoClearBetween(i, j)
        /\ registry.calls[i].returned = registry.calls[j].returned
        /\ registry.calls[j].stages # NoStages
        /\ registry.calls[k].name # registry.calls[i].name
        /\ registry.calls[k].returned # registry.calls[i].returned

\* ======================================================================
\* Properties of create_command

\* The field of the given width at the given bit of a word: shift and mask.
FieldAt(word, shift, width) == (word \div 2^shift) % 2^width

\* The bits a field of the given width at the given bit occupies.
BitsOf(shift, width) == shift..(shift + width - 1)

\* Bit ranges as <<shift, width>>, in the order GO, REC, TRIG, EXTEN, HPF,
\* HRES, MODE, NCH, FSAMP, with EXTEN on bits 4-5.
TwoBitExtenLayout ==
    <<<<0, 1>>, <<1, 1>>, <<2, 2>>, <<4, 2>>, <<6, 1>>, <<7, 1>>, <<8, 3>>,
      <<11, 2>>, <<13, 2>>>>

\* The fields of a finished call in the order of the layout.
FieldValues ==
    <<command.GO, command.REC, command.TRIG, command.EXTEN, command.HPF,
      command.HRES, command.MODE, command.NCH, command.FSAMP>>

\* The word holds every field at its range of the layout, and the ranges lie
\* within 16 bits and do not overlap.
HoldsFields(layout) ==
    /\ command.Command \in 0..(2^16 - 1)
    /\ \A i \in 1..Len(layout) :
          /\ FieldAt(command.Command, layout[i][1], layout[i][2]) = FieldValues[i]
          /\ BitsOf(layout[i][1], layout[i][2]) \subseteq 0..15
    /\ \A i, j \in 1..Len(layout) :
          i # j => BitsOf(layout[i][1], layout[i][2])
                     \cap BitsOf(layout[j][1], layout[j][2]) = {}

\* C32 as stated: for all in-range field values the word fits in 16 bits and
\* holds each field at its stated position (bit0 GO, bit1 REC, bits2-3 TRIG,
\* bit4 EXTEN, bit6 HPF, bit7 HRES, bits8-10 MODE, bits11-12 NCH, bits13-14
\* FSAMP) without overlap, so that every field is recovered by shifting and
\* masking.
C32_FieldsAtStatedBits ==
    command.done => HoldsFields([TwoBitExtenLayout EXCEPT ![4] = <<4, 1>>])

\* C32, amended: the same with EXTEN, whose values 0..3 need two bits, on
\* bits 4-5.
C32_FieldsWithTwoBitExten ==
    command.done => HoldsFields(TwoBitExtenLayout)

\* A finished call with every field at its largest value.
C32_Witness ==
    /\ command.done
    /\ FieldValues = <<1, 1, 3, 3, 1, 1, 7, 3, 3>>
    /\ command.Command = 2^15 - 1

\* ======================================================================
\* Properties of the paused receiver

\* C33: while the running flag is false, a frame decoded by the worker
\* causes no track write and no emitted signal: neither data_received nor
\* any stage_output event for that frame.
C33_PausedFrameIsSilent ==
    [][(Len(frames') > Len(frames) /\ ~running) =>
          /\ tracks' = tracks
          /\ data_received' = data_received
          /\ events' = events]_vars

\* ======================================================================
\* Properties of the write cursor

\* C34: in every state reached by feeds of packets of at most capacity
\* samples and by change_plot_time resizes, the write cursor satisfies
\* 0 <= buffer_index < capacity of the current buffer.
C34_CursorInsideBuffer ==
    /\ 0 <= track.buffer_index
    /\ track.buffer_index < Len(track.buffer)

\* ======================================================================
\* Properties of the repair sweep

\* Row and column of a 1-based channel position of the grid.
RowOf(idx) == 7 - ((idx - 1) % 8)
ColOf(idx) == (idx - 1) \div 8

\* Cell a is processed before cell b by a sweep with col outer, row inner.
SweptBefore(a, b) ==
    \/ ColOf(a) < ColOf(b)
    \/ ColOf(a) = ColOf(b) /\ RowOf(a) < RowOf(b)

\* The cells that are low before the repair with no in-grid neighbour at or
\* above the threshold before the repair, but with a neighbour swept earlier.
BehindRepairedCells ==
    LET tenth == TenthOfMedian IN
    {idx \in 1..64 :
        LET nb == WindowAround(RowOf(idx), ColOf(idx)) IN
        /\ RLess(PreRepairMvc[idx], tenth)
        /\ \A i \in 1..Len(nb) : RLess(PreRepairMvc[nb[i]], tenth)
        /\ \E i \in 1..Len(nb) : SweptBefore(nb[i], idx)}

\* The neighbours of a cell swept before it.
RepairedNeighbours(idx) ==
    SelectSeq(WindowAround(RowOf(idx), ColOf(idx)), LAMBDA n : SweptBefore(n, idx))

\* C37: the sweep works in place with col outer and row inner, so that a
\* low cell whose only neighbours at or above the threshold are cells
\* repaired earlier in the sweep ends with the mean of those repaired
\* values, not with the median.
C37_LaterCellsSeeEarlierRepairs ==
    computation.done =>
        \A idx \in BehindRepairedCells :
            LET nb == RepairedNeighbours(idx) IN
            computation.result.mvc_rms[idx] =
                RDivInt(RSum([i \in 1..Len(nb) |-> computation.result.mvc_rms[nb[i]]]),
                        Len(nb))

\* The centre of a saturated 3x3 block ended with the mean of its four
\* neighbours repaired before it, which is not the median.
C37_Witness ==
    /\ computation.done
    /\ 19 \in BehindRepairedCells
    /\ Len(RepairedNeighbours(19)) = 4
    /\ computation.result.mvc_rms[19] # MedianMvc(PreRepairMvc)

\* C39: after the repair of an array of at least 64 non-negative values,
\* every channel of the grid is at or above a tenth of the median the grid
\* had before the repair.
C39_NoChannelLeftLow ==
    computation.done =>
        LET tenth == TenthOfMedian IN
        \A c \in 1..64 : ~RLess(computation.result.mvc_rms[c], tenth)

\* Half of the grid was saturated, its first column had no neighbour to
\* average, and every channel ended at or above a positive threshold.
C39_Witness ==
    /\ computation.done
    /\ RLess(RInt(0), TenthOfMedian)
    /\ \A c \in 1..32 : PreRepairMvc[c] = RInt(0)
    /\ computation.result.mvc_rms[8] = MedianMvc(PreRepairMvc)
    /\ \A c \in 1..64 : ~RLess(computation.result.mvc_rms[c], TenthOfMedian)

\* ======================================================================
\* Properties of the default merge

\* C38: with min_duration_samples = 5 and merge_gap_samples left at None
\* (refractory_period = 3, merge gap 3), two consecutive contractions
\* accepted by the forward scan are more than 3 samples apart and the merge
\* pass returns the scan's list unchanged.
C38_DefaultMergeKeepsScan ==
    (/\ detection.done
     /\ detection.min_duration_samples = 5
     /\ detection.merge_gap_samples = -1)
    => /\ RefractoryPeriod(5) = 3
       /\ MergeGap(detection) = 3
       /\ \A k \in 2..Len(detection.scanned) :
             detection.scanned[k].start_idx - detection.scanned[k - 1].end_idx > 3
       /\ detection.contractions = detection.scanned

\* The part of C38 that holds: contractions accepted by the scan under the
\* default parameters are more than 3 samples apart.
ScanGapsAboveThree ==
    (detection.done /\ detection.min_duration_samples = 5) =>
        \A k \in 2..Len(detection.scanned) :
            detection.scanned[k].start_idx - detection.scanned[k - 1].end_idx > 3

\* ======================================================================
\* Properties of a failed start

\* C36: when start_streaming returns False (the receiver is None or its
\* thread cannot be restarted), is_streaming, is_paused and the receiver's
\* running flag are as before the call and the plot timer is not started.
C36_FailedStartChangesNothing ==
    [][(/\ controller'.calls = controller.calls + 1
        /\ controller'.method = "start_streaming"
        /\ controller'.returned = "False")
       => /\ controller'.is_streaming = controller.is_streaming
          /\ controller'.is_paused = controller.is_paused
          /\ controller'.running = controller.running
          /\ controller'.timer_active = controller.timer_active]_vars

\* The part of C36 that holds: a start that returns False starts neither
\* the timer nor the thread.
FailedStartLeavesTimerAndThread ==
    [][(/\ controller'.calls = controller.calls + 1
        /\ controller'.method = "start_streaming"
        /\ controller'.returned = "False")
       => /\ controller'.timer_active = controller.timer_active
          /\ controller'.thread = controller.thread]_vars

\* ======================================================================
\* Properties of the first click

\* C35: initialize_receiver called with a connected socket completes
\* without error and leaves a StreamingController bound to the new receiver
\* thread, and the toggle_streaming that follows in the stream button handler
\* starts the worker and sets its running flag.
C35_FirstClickStartsWorker ==
    [][(window.receiver_thread = None /\ window'.receiver_thread # None)
       => /\ window'.critical = window.critical
          /\ window'.streaming_controller # None
          /\ window'.handler = "handle_stream_toggle" =>
                /\ running'
                /\ pc' \in {"recv", "retry", "process"}]_vars

\* No run binds a controller: once the receiver thread exists the handlers
\* skip initialize_receiver.
ControllerNeverBound == window.streaming_controller = None

====
